---------------------------- MODULE Spec2Model ----------------------------
(***************************************************************************)
(* Verification model of the liquid particle simulation of AudioViz MIDI   *)
(* (visualization/liquid_mode.py): FluidParticle, SpatialHashGrid,         *)
(* RippleWave and LiquidMode.                                              *)
(*                                                                         *)
(* Number representation.  The program computes in binary floating point;  *)
(* the model computes in fixed point, with truncation toward zero where a  *)
(* quotient is not an integer and clipping to +-MaxMag where a magnitude   *)
(* leaves the representable range:                                         *)
(*   position, radius     1/6000 pixel        (PosScale)                   *)
(*   velocity, speed      1/100 pixel/second  (VelScale)                   *)
(*   acceleration         1/100 pixel/second^2                             *)
(*   age, lifetime        1/600 second        (a tick, dt = 1/60 s, is 10) *)
(*   mass                 1/1000                                           *)
(*   density              1                                                *)
(*   pressure             10^12                                            *)
(*   viscosity force      1/1000000                                        *)
(*   amplitude            1/100                                            *)
(*   surface tension      1/6                                              *)
(* With these units one tick moves a particle by exactly its velocity:     *)
(* v px/s * (1/60) s = v/60 px = 100 v position units = v velocity units.  *)
(* Distances between particles are measured in 1/60 pixel.                 *)
(* A Python object (particle) is identified by a unique id.                *)
(***************************************************************************)
EXTENDS Integers, Sequences, FiniteSets, TLC

(***************************************************************************)
(* Arithmetic helpers                                                      *)
(***************************************************************************)
MaxMag == 10 * 10 * 10 * 10 * 10 * 10 * 10 * 10 * 10

Abs(a) == IF a < 0 THEN -a ELSE a

Sgn(a) == IF a < 0 THEN -1 ELSE IF a > 0 THEN 1 ELSE 0

Min(a, b) == IF a < b THEN a ELSE b

Max(a, b) == IF a > b THEN a ELSE b

\* Python's int(a / b): the quotient truncated toward zero.  Every divisor
\* of the program is positive (density >= 500, r_sq + epsilon, lifetime).
TDiv(a, b) == IF b = 0 THEN 0 ELSE Sgn(a) * Sgn(b) * (Abs(a) \div Abs(b))

Sat(a) == IF a > MaxMag THEN MaxMag ELSE IF a < -MaxMag THEN -MaxMag ELSE a

\* a * b, clipped to +-MaxMag (|a|, |b| <= MaxMag).
SatMul(a, b) ==
    IF a = 0 \/ b = 0 THEN 0
    ELSE IF Abs(a) > MaxMag \div Abs(b) THEN Sgn(a) * Sgn(b) * MaxMag
    ELSE a * b

\* a * b / c, clipped to +-MaxMag; the product is formed first when it is
\* representable and the larger factor is divided first when it is not.
MulDiv(a, b, c) ==
    IF a = 0 \/ b = 0 THEN 0
    ELSE IF Abs(a) <= MaxMag \div Abs(b) THEN TDiv(a * b, c)
    ELSE IF Abs(a) >= Abs(b) THEN SatMul(TDiv(a, c), b)
    ELSE SatMul(a, TDiv(b, c))

\* a + b, clipped to +-MaxMag (|a|, |b| <= MaxMag).
SatAdd(a, b) == Sat(a + b)

Sq(a) == a * a

RECURSIVE ISqrtFrom(_, _, _)
\* Integer square root by bisection: largest s in lo..hi with s*s <= n.
ISqrtFrom(n, lo, hi) ==
    IF lo >= hi THEN lo
    ELSE LET mid == (lo + hi + 1) \div 2
         IN IF mid * mid <= n THEN ISqrtFrom(n, mid, hi)
            ELSE ISqrtFrom(n, lo, mid - 1)

ISqrt(n) == ISqrtFrom(n, 0, 2048)

(***************************************************************************)
(* Units                                                                   *)
(***************************************************************************)
PosScale == 60 * 100

VelScale == 10 * 10

DistScale == 6 * 10

\* dt = 1.0 / 60.0 second, in 1/600 second.
DT == 600 \div 60

Px(n) == n * PosScale

(***************************************************************************)
(* LiquidMode class constants                                              *)
(***************************************************************************)
KERNEL_RADIUS == 15

GAS_STIFFNESS == 2

\* VISCOSITY = 0.018, in 1/1000.
VISCOSITY_MILLI == 18

REST_DENSITY == 1000

\* GRAVITY = 300.0 px/s^2
GRAVITY == 300

\* DAMPING = 0.98, in 1/100.
DAMPING_PCT == 98

\* POLY6_CONST = 315 / (64 pi) = 1.5667, in 1/10000.
POLY6_E4 == 15667

\* SPIKY_CONST = -45 / pi = -14.324, in 1/1000.
SPIKY_MILLI == -14324

\* VISCOSITY_CONST = 45 / pi = 14.324, in 1/1000.
VISCOSITY_CONST_MILLI == 14324

keyboard_height == 50

\* The 12 chromatic colours, indexed by pitch % 12 (here 1-based).
chromatic_colors ==
    << <<220, 80, 100>>, <<240, 100, 80>>, <<240, 150, 60>>, <<230, 200, 60>>,
       <<200, 220, 80>>, <<120, 220, 100>>, <<80, 220, 150>>, <<80, 200, 240>>,
       <<100, 160, 240>>, <<140, 120, 240>>, <<200, 100, 240>>, <<240, 80, 200>> >>

(***************************************************************************)
(* Environment: the screen the mode is constructed on                      *)
(***************************************************************************)
\* screen.get_size(), in pixels.
Width == 120

Height == 75

\* keyboard_y = self.height - self.keyboard_height, in position units.
KeyboardY == Px(Height - keyboard_height)

(***************************************************************************)
(* Random draws.  random.uniform(a, b) may return any value of [a, b]; the *)
(* model takes each draw from a short list of representative values, the   *)
(* entry being selected by the seed of the call and the index of the draw. *)
(***************************************************************************)
Seeds == {1, 2}

Pick(vals, n) == vals[(n % Len(vals)) + 1]

\* random.uniform(-20, 20) px: horizontal spawn jitter.
SpawnOffsetXs == << Px(-19), Px(7), Px(-3), Px(19), 0 >>

\* random.uniform(-5, 5) px: vertical spawn jitter and splash jitter.
OffsetYs == << Px(-4), Px(2), 0, Px(-1) >>

\* random.uniform(-1, 1) px/s: initial horizontal velocity.
InitialVxs == << 0, -100, 99 >>

\* random.uniform(-0.1, 0.1), in 1/1000: the pressure noise of a tick.
NoiseVals == << 100, -100, 0 >>

\* random.uniform(-10, 10) px/s: horizontal splash jitter.
SplashVxs == << 0, 1000, -1000 >>

\* random.uniform(0, 0.2) s: splash lifetime spread, in 1/600 s.
SplashLifetimes == << 0, 65, 120 >>

\* random.uniform(10, 40): shimmer colour shift, in 1/10.
ShimmerShifts == << 100, 255, 400 >>

(***************************************************************************)
(* FluidParticle                                                           *)
(***************************************************************************)
\* FluidParticle.__init__(x, y, pitch, velocity, color, mass); velocity is
\* the rational velNum / velDen, vxRand is the draw random.uniform(-1, 1).
FluidParticle(id, x, y, pitch, velNum, velDen, color, mass, vxRand) ==
    [ id |-> id, x |-> x, y |-> y, pitch |-> pitch, color |-> color,
      mass |-> mass,
      vx |-> vxRand,
      vy |-> 2 * VelScale + MulDiv(4 * VelScale, velNum, velDen),
      ax |-> 0, ay |-> 0,
      pressure |-> 0, density |-> 0,
      viscosity_force_x |-> 0, viscosity_force_y |-> 0,
      alpha |-> 255, age |-> 0, lifetime |-> 8 * 600,
      size |-> Max(3, 4 + MulDiv(3, velNum, velDen)),
      neighbors |-> << >>, num_neighbors |-> 0,
      surface_tension_factor |-> 6 ]

\* The particle of the list ps that has the given id.
ById(ps, id) == ps[CHOOSE i \in 1..Len(ps) : ps[i].id = id]

Ids(ps) == { ps[i].id : i \in 1..Len(ps) }

\* A removal that is left out.
RemoveNothing(ps, id) == ps

\* list.remove(particle): drops the first occurrence of the object.
RemoveParticle(ps, id) ==
    IF id \notin Ids(ps) THEN ps
    ELSE LET k == CHOOSE i \in 1..Len(ps) :
                    ps[i].id = id /\ \A j \in 1..(i - 1) : ps[j].id # id
         IN [ i \in 1..(Len(ps) - 1) |-> IF i < k THEN ps[i] ELSE ps[i + 1] ]

(***************************************************************************)
(* SpatialHashGrid: a dict from cell (cell_x, cell_y) to the list of the   *)
(* particles (ids) inserted into it.                                       *)
(***************************************************************************)
\* cell_size = KERNEL_RADIUS * 2 (LiquidMode.__init__), in position units.
CellSize == Px(KERNEL_RADIUS * 2)

EmptyGrid == << >>

\* math.floor(coordinate / cell_size)
CellOfFloor(c) == c \div CellSize

\* int(coordinate / cell_size)
CellOf(c) == TDiv(c, CellSize)

GridInsert(g, particle) ==
    LET key == << CellOf(particle.x), CellOf(particle.y) >>
    IN IF key \in DOMAIN g
       THEN [ g EXCEPT ![key] = Append(@, particle.id) ]
       ELSE [ k \in (DOMAIN g) \cup {key} |->
                IF k = key THEN << particle.id >> ELSE g[k] ]

\* dist_sq = (p.x - q.x) ** 2 + (p.y - q.y) ** 2, in (1/60 px)^2.
DistSq(p, q) ==
    Sq(TDiv(p.x - q.x, PosScale \div DistScale))
    + Sq(TDiv(p.y - q.y, PosScale \div DistScale))

\* A search range that forgets the cells next to the particle's own.
SearchRangeOwnCell(radius) == TDiv(Px(radius), CellSize)

\* search_range = int(radius / self.cell_size) + 1 (radius in pixels)
SearchRange(radius) == TDiv(Px(radius), CellSize) + 1

RECURSIVE ScanCells(_, _, _, _, _)
\* The two nested loops over dx, dy in range(-search_range, search_range+1),
\* flattened: step k visits dx = -sr + k div (2sr+1), dy = -sr + k mod (2sr+1).
ScanCells(g, ps, particle, radius, k) ==
    LET sr   == SearchRange(radius)
        side == 2 * sr + 1
    IN IF k >= side * side THEN << >>
       ELSE LET key == << CellOf(particle.x) + (k \div side) - sr,
                          CellOf(particle.y) + (k % side) - sr >>
                found == IF key \in DOMAIN g
                         THEN SelectSeq(g[key], LAMBDA oid :
                                DistSq(particle, ById(ps, oid))
                                    < Sq(radius * DistScale)
                                /\ oid # particle.id)
                         ELSE << >>
            IN found \o ScanCells(g, ps, particle, radius, k + 1)

\* SpatialHashGrid.get_neighbors(particle, radius): the ids found, in scan order.
GetNeighbors(g, ps, particle, radius) == ScanCells(g, ps, particle, radius, 0)

(***************************************************************************)
(* RippleWave                                                              *)
(***************************************************************************)
RippleWave(x, y, amplitude, speed) ==
    [ x |-> x, y |-> y, radius |-> Px(5), max_radius |-> Px(200),
      amplitude |-> amplitude, speed |-> speed, age |-> 0,
      lifetime |-> (12 * 600) \div 10, damping |-> 95 ]

\* An update whose radius step has the wrong sign.
RippleUpdateInward(r) ==
    [ r EXCEPT !.age = @ + DT,
               !.radius = @ - r.speed,
               !.amplitude = TDiv(@ * r.damping, 100) ]

\* RippleWave.update(dt), dt = 1/60 s
RippleUpdate(r) ==
    [ r EXCEPT !.age = @ + DT,
               !.radius = @ + r.speed,
               !.amplitude = TDiv(@ * r.damping, 100) ]

RippleIsAlive(r) == r.age < r.lifetime /\ r.radius < r.max_radius

(***************************************************************************)
(* Trigonometry of _create_splash: angle = (i / count) * 2 pi.  An angle   *)
(* is given in quarter units, 4 * count to the full turn, and the sine is  *)
(* Bhaskara's rational approximation (error below 0.002), in 1/1000.       *)
(***************************************************************************)
\* sin(pi * n / h) for 0 <= n <= h
HalfSine(n, h) == TDiv(16000 * n * (h - n), 5 * h * h - 4 * n * (h - n))

SinMilli(a, count) ==
    LET full == 4 * count
        r    == a % full
    IN IF r <= 2 * count THEN HalfSine(r, 2 * count)
       ELSE -HalfSine(r - 2 * count, 2 * count)

CosMilli(a, count) == SinMilli(a + count, count)

(***************************************************************************)
(* MIDI data: a list of notes sorted by start time (midi/midi_data.py).    *)
(* Clock times are in beats of the model's clock.                          *)
(***************************************************************************)
Note(pitch, start_time, end_time, velocity) ==
    [ pitch |-> pitch, start_time |-> start_time, end_time |-> end_time,
      velocity |-> velocity ]

\* Note.is_active_at(time)
IsActiveAt(note, time) == note.start_time <= time /\ time < note.end_time

\* MIDIData.get_notes_at_time(time)
GetNotesAtTime(notes, time) == SelectSeq(notes, LAMBDA n : IsActiveAt(n, time))

(***************************************************************************)
(* PlaybackController (playback/playback_controller.py).  Times are in     *)
(* seconds; now is the reading of time.time(), timer is whether the        *)
(* update timer is running.                                                *)
(***************************************************************************)
\* PlaybackController.__init__()
NewPlayer ==
    [ state |-> "stopped", audio_file |-> "none", duration |-> 0,
      current_time |-> 0, start_time |-> 0, pause_time |-> 0,
      midi_keyboard_offset |-> 0, timer |-> FALSE, now |-> 0 ]

(***************************************************************************)
(* LiquidMode state                                                        *)
(***************************************************************************)
VARIABLES
    particles,         \* self.particles: list of FluidParticle
    ripples,           \* self.ripples: list of RippleWave
    spatial_hash,      \* self.spatial_hash.grid
    midi_data,         \* self.midi_data: list of notes, << >> when None or empty
    last_note_times,   \* self._last_note_times: dict pitch -> time
    last_frame_time,   \* self._last_frame_time
    impact_events,     \* self._impact_events
    nextId,            \* number of particle objects created so far, plus one
    frames,            \* number of frames rendered so far
    last,              \* the operation that led to this state
    player,            \* the PlaybackController: its fields and the wall clock
    quantized          \* the notes NoteQuantizer.quantize has returned

vars == << particles, ripples, spatial_hash, midi_data, last_note_times,
           last_frame_time, impact_events, nextId, frames, last, player,
           quantized >>

\* The mutable simulation state handed from one step of a method to the next.
\* The field crossed is history: the ids of the particles that the last
\* physics tick moved onto or past the keyboard line.
Sim(ps, rs, g, lnt, ie, n) ==
    [ particles |-> ps, ripples |-> rs, spatial_hash |-> g,
      last_note_times |-> lnt, impact_events |-> ie, nextId |-> n,
      crossed |-> {} ]

Current ==
    Sim(particles, ripples, spatial_hash, last_note_times, impact_events, nextId)

EmptyDict == << >>

\* A reset that forgets self.spatial_hash.clear().
ResetKeepingGrid(st) ==
    Sim(<< >>, << >>, st.spatial_hash, EmptyDict, << >>, st.nextId)

\* LiquidMode.reset()
ResetSim(st) == Sim(<< >>, << >>, EmptyGrid, EmptyDict, << >>, st.nextId)

(***************************************************************************)
(* Spawning droplets                                                       *)
(***************************************************************************)
\* A count that rounds to the nearest integer instead of truncating.
DropletCountRounded(velocity) ==
    Max(2, TDiv(2 * (5 * 127 + velocity * 8) + 127, 2 * 127))

\* count = max(2, int(5 + velocity_norm * 8)), velocity_norm = velocity / 127
DropletCount(velocity) == Max(2, TDiv(5 * 127 + velocity * 8, 127))

\* Velocity of a droplet after the velocity update of its first tick when no
\* other force than gravity acts on it.
FirstTickVy(vy0) ==
    TDiv((vy0 + (GRAVITY * VelScale) \div 60) * DAMPING_PCT, 100)

\* The draw random.uniform(-5, 5) of droplet i, when that offset is within
\* the jitter range: under seed 2 the first droplet starts exactly one tick
\* above the keyboard line, under seed 1 a tenth of a pixel lower, so that
\* its first tick carries it past the line.
SpawnOffsetY(seed, i, vy0) ==
    LET land == KeyboardY - Px(20) - FirstTickVy(vy0)
        past == land + Px(1) \div 10
    IN IF seed = 2 /\ i = 0 /\ land > Px(-5) /\ land < Px(5) THEN land
       ELSE IF seed = 1 /\ i = 0 /\ past > Px(-5) /\ past < Px(5) THEN past
       ELSE Pick(OffsetYs, seed + i)

RECURSIVE SpawnLoop(_, _, _, _)
\* for i in range(count): ... self.particles.append(particle)
SpawnLoop(st, note, seed, i) ==
    IF i >= DropletCount(note.velocity) THEN st
    ELSE LET x == TDiv(note.pitch * Px(Width), 127)
             y == Px(20)
             color == chromatic_colors[(note.pitch % 12) + 1]
             vy0 == 2 * VelScale + MulDiv(4 * VelScale, note.velocity, 127)
             particle ==
                FluidParticle(st.nextId,
                              x + Pick(SpawnOffsetXs, seed + i),
                              y + SpawnOffsetY(seed, i, vy0),
                              note.pitch, note.velocity, 127, color,
                              500 + TDiv(note.velocity * 500, 127),
                              Pick(InitialVxs, seed + i))
         IN SpawnLoop([ st EXCEPT !.particles = Append(@, particle),
                                  !.nextId = @ + 1 ],
                      note, seed, i + 1)

\* LiquidMode._spawn_droplets_for_note(note, current_time)
SpawnDropletsForNote(st, note, seed) == SpawnLoop(st, note, seed, 0)

(***************************************************************************)
(* Keyboard impacts, ripples and splashes                                  *)
(***************************************************************************)
\* LiquidMode._shimmer_color(color); shift in 1/10.
ShimmerColor(color, shift) ==
    << Min(255, color[1] + shift \div 10),
       Min(255, color[2] + shift \div 20),
       Max(50, color[3] + (3 * shift) \div 100) >>

\* LiquidMode._create_ripple(x, y, velocity)
CreateRipple(st, x, y, velocity) ==
    LET amplitude == 2 * 100 + TDiv(velocity * 3, VelScale)
        speed == 120 * VelScale + velocity * 20
    IN [ st EXCEPT !.ripples = Append(@, RippleWave(x, y, amplitude, speed)) ]

\* A count that rounds to the nearest integer instead of truncating.
SplashCountRounded(velocity) ==
    TDiv(8 * 100 * VelScale + velocity * 15 + 50 * VelScale, 100 * VelScale)

\* count = int(8 + velocity * 0.15)
SplashCount(velocity) == TDiv(8 * 100 * VelScale + velocity * 15, 100 * VelScale)

\* The draw random.uniform(-5, 5) for the height of splash particle i:
\* under seed 2 the third particle is created exactly on the keyboard line.
SplashOffsetY(seed, i) ==
    IF seed = 2 /\ i = 2 THEN 0
    ELSE Pick(<< Px(-4), Px(-1), Px(-2) >>, seed + i)

RECURSIVE SplashLoop(_, _, _, _, _, _, _)
\* for i in range(count): ... self.particles.append(particle)
SplashLoop(st, x, y, color, velocity, seed, i) ==
    LET count == SplashCount(velocity)
    IN IF i >= count THEN st
       ELSE LET speed == 80 * VelScale + velocity \div 2
                base == FluidParticle(st.nextId,
                                      x + Pick(OffsetYs, seed + i + 1),
                                      y + SplashOffsetY(seed, i),
                                      0, velocity, VelScale,
                                      ShimmerColor(color, Pick(ShimmerShifts, seed + i)),
                                      300, Pick(InitialVxs, seed + i))
                particle ==
                   [ base EXCEPT
                       !.vx = MulDiv(CosMilli(4 * i, Max(1, count)), speed, 1000)
                              + Pick(SplashVxs, seed + i),
                       !.vy = MulDiv(SinMilli(4 * i, Max(1, count)), speed, 1000)
                              - 100 * VelScale,
                       !.lifetime = (4 * 600) \div 10
                                    + Pick(SplashLifetimes, seed + i) ]
            IN SplashLoop([ st EXCEPT !.particles = Append(@, particle),
                                      !.nextId = @ + 1 ],
                          x, y, color, velocity, seed, i + 1)

\* LiquidMode._create_splash(x, y, color, velocity)
CreateSplash(st, x, y, color, velocity, seed) ==
    SplashLoop(st, x, y, color, velocity, seed, 0)

RECURSIVE DetectImpacts(_, _, _, _)
\* for particle in self.particles[:]: the loop over the copy that collects
\* the impacts and removes the impacting particles from the live list.
\* Returns the live list and the impacts.
DetectImpacts(copy, i, live, impacts) ==
    IF i > Len(copy) THEN [ particles |-> live, impacts |-> impacts ]
    ELSE LET particle == copy[i]
         IN IF particle.y >= KeyboardY
               /\ particle.id \notin { impacts[j].particle : j \in 1..Len(impacts) }
            THEN DetectImpacts(copy, i + 1, RemoveParticle(live, particle.id),
                               Append(impacts,
                                      [ particle |-> particle.id,
                                        x |-> particle.x,
                                        y |-> KeyboardY,
                                        velocity |-> Abs(particle.vy),
                                        color |-> particle.color ]))
            ELSE DetectImpacts(copy, i + 1, live, impacts)

RECURSIVE ImpactEffects(_, _, _, _)
\* for impact in impacts: create the ripple, then the splash particles
ImpactEffects(st, impacts, seed, k) ==
    IF k > Len(impacts) THEN st
    ELSE LET impact == impacts[k]
             s1 == CreateRipple(st, impact.x, impact.y, impact.velocity)
             s2 == CreateSplash(s1, impact.x, impact.y, impact.color,
                                impact.velocity, seed)
         IN ImpactEffects(s2, impacts, seed, k + 1)

\* LiquidMode._check_keyboard_impacts(current_time)
CheckKeyboardImpacts(st, seed) ==
    LET found == DetectImpacts(st.particles, 1, st.particles, << >>)
    IN IF found.impacts = << >> THEN st
       ELSE ImpactEffects(
              [ st EXCEPT !.particles = found.particles,
                          !.impact_events = @ \o found.impacts ],
              found.impacts, seed, 1)

(***************************************************************************)
(* SPH solver                                                              *)
(***************************************************************************)
\* KERNEL_RADIUS in 1/60 px, and its square.
H == KERNEL_RADIUS * DistScale

HSq == Sq(H)

\* r = math.sqrt(r_sq) if r_sq > 0 else 0.001, in 1/60 px (0.001 px is 0).
KernelR(rsq) == IF rsq > 0 THEN ISqrt(rsq) ELSE 0

\* if r < self.KERNEL_RADIUS
InKernel(rsq) == IF rsq > 0 THEN rsq < HSq ELSE TRUE

\* POLY6_CONST * (h_sq - r_sq) ** 3 / (r_sq + 0.0001), r_sq in (1/60 px)^2:
\* (h_sq - r_sq) is taken in whole px^2, r_sq + 0.0001 px^2 is
\* (100 r_sq + 36) / 360000.
Poly6Kernel(rsq) ==
    LET d == (HSq - rsq) \div Sq(DistScale)
    IN MulDiv(MulDiv(d * d * d, 360000, 100 * rsq + 36), POLY6_E4, 10000)

\* POLY6_CONST * h_sq ** 3
Poly6Self == MulDiv(Sq(KERNEL_RADIUS) * Sq(KERNEL_RADIUS) * Sq(KERNEL_RADIUS),
                    POLY6_E4, 10000)

\* The record of every neighbour of the particle, in the order of the list.
NeighborsOf(particle, ps) ==
    [ k \in 1..Len(particle.neighbors) |-> ById(ps, particle.neighbors[k]) ]

RECURSIVE NeighborDensity(_, _, _, _)
\* for neighbor in particle.neighbors: particle.density += neighbor.mass * kernel
\* (acc is particle.density so far)
NeighborDensity(particle, nbs, k, acc) ==
    IF k > Len(nbs) THEN acc
    ELSE LET rsq == DistSq(particle, nbs[k])
         IN NeighborDensity(particle, nbs, k + 1,
              IF InKernel(rsq)
              THEN SatAdd(acc, MulDiv(nbs[k].mass, Poly6Kernel(rsq), 1000))
              ELSE acc)

\* A slip that would break the density floor: the neighbour sum alone,
\* without the self contribution and without the floor.
CalculateDensityNoFloor(particle, ps) ==
    NeighborDensity(particle, NeighborsOf(particle, ps), 1, 0)

\* LiquidMode._calculate_density(particle): the new particle.density
CalculateDensity(particle, ps) ==
    LET sum  == NeighborDensity(particle, NeighborsOf(particle, ps), 1, 0)
        self == MulDiv(particle.mass, Poly6Self, 1000)
    IN Max(REST_DENSITY \div 2, SatAdd(sum, self))

\* GAS_STIFFNESS * ((density / REST_DENSITY) ** 7 - 1.0), in units of 10^12:
\* with r = density / REST_DENSITY, r ** 7 / 10^12 = (r ** 3 / 10^6) ** 2 * r,
\* and the result is clipped once r reaches 1000.
PressureOf(density) ==
    LET r == density \div REST_DENSITY
    IN IF r >= 1000 THEN MaxMag
       ELSE Sat(GAS_STIFFNESS * Sq((r * r * r) \div 1000000) * r)

RECURSIVE PressureSum(_, _, _, _)
\* The loop of _calculate_pressure_force over the neighbour records nbs:
\* acc is << pressure_x, pressure_y >> accumulated so far.
PressureSum(particle, nbs, k, acc) ==
    IF k > Len(nbs) THEN acc
    ELSE LET neighbor == nbs[k]
             rsq == DistSq(particle, neighbor)
             r == KernelR(rsq)
             grad == MulDiv(SPIKY_MILLI, Sq(H - r), Sq(DistScale))
             scale == - SatMul(MulDiv(neighbor.mass,
                                      SatAdd(particle.pressure, neighbor.pressure),
                                      2 * neighbor.density),
                               MaxMag)
             sg == MulDiv(scale, grad, 1000)
             dirx == TDiv(TDiv(particle.x - neighbor.x, PosScale \div DistScale)
                          * 1000, Max(1, r))
             diry == TDiv(TDiv(particle.y - neighbor.y, PosScale \div DistScale)
                          * 1000, Max(1, r))
         IN PressureSum(particle, nbs, k + 1,
                        IF InKernel(rsq)
                        THEN << SatAdd(acc[1], MulDiv(sg, dirx, 1000)),
                                SatAdd(acc[2], MulDiv(sg, diry, 1000)) >>
                        ELSE acc)

\* LiquidMode._calculate_pressure_force(particle): adds to particle.ax, .ay
CalculatePressureForce(particle, ps) ==
    LET sum == PressureSum(particle, NeighborsOf(particle, ps), 1, << 0, 0 >>)
    IN [ particle EXCEPT
           !.ax = SatAdd(@, MulDiv(sum[1], VelScale, particle.density)),
           !.ay = SatAdd(@, MulDiv(sum[2], VelScale, particle.density)) ]

RECURSIVE ViscositySum(_, _, _, _)
\* The loop of _calculate_viscosity_force over the neighbour records nbs:
\* acc is << viscosity_force_x, viscosity_force_y >> accumulated so far.
ViscositySum(particle, nbs, k, acc) ==
    IF k > Len(nbs) THEN acc
    ELSE LET neighbor == nbs[k]
             rsq == DistSq(particle, neighbor)
             r == KernelR(rsq)
             lap == MulDiv(VISCOSITY_CONST_MILLI, H - r, DistScale)
         IN ViscositySum(particle, nbs, k + 1,
              IF InKernel(rsq)
              THEN << SatAdd(acc[1],
                             MulDiv(MulDiv(neighbor.mass,
                                           neighbor.vx - particle.vx, 100),
                                    lap, neighbor.density)),
                      SatAdd(acc[2],
                             MulDiv(MulDiv(neighbor.mass,
                                           neighbor.vy - particle.vy, 100),
                                    lap, neighbor.density)) >>
              ELSE acc)

\* LiquidMode._calculate_viscosity_force(particle)
CalculateViscosityForce(particle, ps) ==
    LET sum == ViscositySum(particle, NeighborsOf(particle, ps), 1, << 0, 0 >>)
    IN [ particle EXCEPT !.viscosity_force_x = sum[1],
                         !.viscosity_force_y = sum[2] ]

\* A surface-tension factor that is min(1, num_neighbors / 6) throughout.
SurfaceTensionNoDefault(particle) ==
    [ particle EXCEPT !.num_neighbors = Len(particle.neighbors),
                      !.surface_tension_factor = Min(6, Len(particle.neighbors)) ]

\* LiquidMode._calculate_surface_tension(particle); the factor in 1/6.
CalculateSurfaceTension(particle) ==
    LET num_neighbors == Len(particle.neighbors)
    IN [ particle EXCEPT
           !.num_neighbors = num_neighbors,
           !.surface_tension_factor =
               IF num_neighbors > 0 THEN Min(6, num_neighbors) ELSE 3 ]

\* Side walls that clamp the position but keep the velocity.
SideWallsNoBounce(particle) ==
    IF particle.x < Px(5) THEN [ particle EXCEPT !.x = Px(5) ]
    ELSE IF particle.x > Px(Width - 5) THEN [ particle EXCEPT !.x = Px(Width - 5) ]
    ELSE particle

(***************************************************************************)
(* Boundary conditions                                                     *)
(***************************************************************************)
\* The side-wall rule of _apply_boundary_conditions.
SideWalls(particle) ==
    IF particle.x < Px(5)
    THEN [ particle EXCEPT !.x = Px(5), !.vx = MulDiv(@, -8, 10) ]
    ELSE IF particle.x > Px(Width - 5)
    THEN [ particle EXCEPT !.x = Px(Width - 5), !.vx = MulDiv(@, -8, 10) ]
    ELSE particle

\* The keyboard rule of _apply_boundary_conditions.
KeyboardBoundary(particle) ==
    IF particle.y > KeyboardY
    THEN [ particle EXCEPT !.y = KeyboardY - Px(2), !.vy = MulDiv(@, -6, 10) ]
    ELSE particle

\* The top rule of _apply_boundary_conditions.
TopBoundary(particle) ==
    IF particle.y < Px(5)
    THEN [ particle EXCEPT !.y = Px(5), !.vy = MulDiv(@, -3, 10) ]
    ELSE particle

\* A boundary step that leaves every particle where the integration put it.
NoBoundary(particle) == particle

\* LiquidMode._apply_boundary_conditions(particle)
ApplyBoundaryConditions(particle) ==
    TopBoundary(KeyboardBoundary(SideWalls(particle)))

(***************************************************************************)
(* The physics tick                                                        *)
(***************************************************************************)
RECURSIVE GCD(_, _)
GCD(a, b) == IF b = 0 THEN a ELSE GCD(b, a % b)

\* alpha = int(255 * (1.0 - progress ** 2)) with
\* progress = (age - fade_start) / (lifetime - fade_start) and
\* fade_start = lifetime * 0.75, i.e. progress = (4 age - 3 lifetime) / lifetime.
FadeAlpha(age, lifetime) ==
    LET n == 4 * age - 3 * lifetime
        g == GCD(Abs(n), lifetime)
        nr == n \div g
        lr == lifetime \div g
    IN TDiv(255 * (lr * lr - nr * nr), lr * lr)

\* -particle.pressure / particle.density, in 1/100 px/s^2
PressureScale(particle) ==
    - SatMul(SatMul(particle.pressure, TDiv(MaxMag, particle.density)), 100000)

\* An integration that adds gravity and the noise term to the acceleration
\* that the force loop has left in ax, ay.
AdvanceKeepingForce(particle, noise) ==
    LET ax == SatAdd(particle.ax,
                     IF particle.density > 0
                     THEN MulDiv(PressureScale(particle), noise, 1000) ELSE 0)
        ay == SatAdd(particle.ay, GRAVITY * VelScale)
        vx == MulDiv(SatAdd(particle.vx, TDiv(ax, 60)), DAMPING_PCT, 100)
        vy == MulDiv(SatAdd(particle.vy, TDiv(ay, 60)), DAMPING_PCT, 100)
    IN [ particle EXCEPT !.ax = ax, !.ay = ay, !.vx = vx, !.vy = vy,
                         !.x = particle.x + vx, !.y = particle.y + vy ]

\* An integration in which the surface-tension factor scales gravity.
AdvanceWithTension(particle, noise) ==
    LET vy == MulDiv(SatAdd(particle.vy,
                            TDiv(GRAVITY * VelScale
                                 * particle.surface_tension_factor, 6 * 60)),
                     DAMPING_PCT, 100)
        vx == MulDiv(particle.vx, DAMPING_PCT, 100)
    IN [ particle EXCEPT !.ax = 0, !.ay = GRAVITY * VelScale,
                         !.vx = vx, !.vy = vy,
                         !.x = particle.x + vx, !.y = particle.y + vy ]

\* One iteration of the integration loop of _update_physics up to the
\* position update; noise is the draw random.uniform(-0.1, 0.1).
Advance(particle, noise) ==
    LET visc == particle.viscosity_force_x # 0 \/ particle.viscosity_force_y # 0
        ax == IF particle.density > 0
              THEN SatAdd(MulDiv(PressureScale(particle), noise, 1000),
                          IF visc
                          THEN TDiv(MulDiv(VISCOSITY_MILLI,
                                           particle.viscosity_force_x,
                                           1000 * 10000),
                                    particle.density)
                          ELSE 0)
              ELSE 0
        ay == GRAVITY * VelScale
              + (IF particle.density > 0 /\ visc
                 THEN TDiv(MulDiv(VISCOSITY_MILLI,
                                  particle.viscosity_force_y, 1000 * 10000),
                           particle.density)
                 ELSE 0)
        vx == MulDiv(SatAdd(particle.vx, TDiv(ax, 60)), DAMPING_PCT, 100)
        vy == MulDiv(SatAdd(particle.vy, TDiv(ay, 60)), DAMPING_PCT, 100)
    IN [ particle EXCEPT !.ax = ax, !.ay = ay, !.vx = vx, !.vy = vy,
                         !.x = particle.x + vx, !.y = particle.y + vy ]

\* One iteration of the integration loop of _update_physics, up to and
\* including the ageing: position update, boundary conditions, age, alpha.
Integrate(particle, noise) ==
    LET moved == ApplyBoundaryConditions(Advance(particle, noise))
        age == particle.age + DT
    IN [ moved EXCEPT
           !.age = age,
           !.alpha = IF 4 * age > 3 * particle.lifetime
                     THEN FadeAlpha(age, particle.lifetime)
                     ELSE @ ]

RECURSIVE RebuildGrid(_, _, _)
\* for particle in self.particles: self.spatial_hash.insert(particle)
RebuildGrid(g, ps, i) ==
    IF i > Len(ps) THEN g ELSE RebuildGrid(GridInsert(g, ps[i]), ps, i + 1)

\* The loops of _update_physics over self.particles are written as maps: the
\* body of each loop reads, of the other particles, only fields that no
\* iteration of the same loop writes.

\* A density loop that leaves out the particles without a neighbour.
DensityLoopNeighboursOnly(ps, g) ==
    [ i \in 1..Len(ps) |->
        LET found == [ ps[i] EXCEPT
                         !.neighbors = GetNeighbors(g, ps, ps[i], KERNEL_RADIUS) ]
        IN IF found.neighbors = << >> THEN found
           ELSE [ found EXCEPT !.density = CalculateDensity(found, ps) ] ]

\* for particle in self.particles: neighbours, then _calculate_density
DensityLoop(ps, g) ==
    [ i \in 1..Len(ps) |->
        LET found == [ ps[i] EXCEPT
                         !.neighbors = GetNeighbors(g, ps, ps[i], KERNEL_RADIUS) ]
        IN [ found EXCEPT !.density = CalculateDensity(found, ps) ] ]

\* for particle in self.particles: particle.pressure = ...
PressureLoop(ps) ==
    [ i \in 1..Len(ps) |-> [ ps[i] EXCEPT !.pressure = PressureOf(ps[i].density) ] ]

\* for particle in self.particles: pressure force, viscosity, surface tension
ForceLoop(ps) ==
    [ i \in 1..Len(ps) |->
        CalculateSurfaceTension(
          CalculateViscosityForce(CalculatePressureForce(ps[i], ps), ps)) ]

\* The draw random.uniform(-0.1, 0.1) of the i-th iteration: under seed 1
\* every draw of the tick is 0.
NoiseDraw(seed, i) == IF seed = 1 THEN 0 ELSE Pick(NoiseVals, seed + i)

\* An integration loop that removes a particle only once its age is past
\* its lifetime.
IntegrateLoopLate(ps, seed) ==
    SelectSeq([ i \in 1..Len(ps) |-> Integrate(ps[i], NoiseDraw(seed, i)) ],
              LAMBDA particle : ~ (particle.age > particle.lifetime))

\* An integration loop that leaves the particles at the end of their
\* lifetime in the list.
IntegrateLoopKeepAll(ps, seed) ==
    [ i \in 1..Len(ps) |-> Integrate(ps[i], NoiseDraw(seed, i)) ]

\* for particle in self.particles[:]: integrate, age, remove when dead
IntegrateLoop(ps, seed) ==
    SelectSeq([ i \in 1..Len(ps) |-> Integrate(ps[i], NoiseDraw(seed, i)) ],
              LAMBDA particle : ~ (particle.age >= particle.lifetime))

\* The particles whose position update of this tick puts them on or past
\* the keyboard line (before the boundary conditions are applied).
Crossing(ps, seed) ==
    { ps[i].id : i \in { j \in 1..Len(ps) :
                           Advance(ps[j], NoiseDraw(seed, j)).y >= KeyboardY } }

\* for ripple in self.ripples[:]: update, remove when not alive
UpdateRipples(rs) ==
    SelectSeq([ i \in 1..Len(rs) |-> RippleUpdate(rs[i]) ], RippleIsAlive)

RECURSIVE OnePass(_, _, _, _)
\* One loop that takes each particle through density, pressure, forces and
\* integration before it turns to the next particle.
OnePass(ps, g, i, seed) ==
    IF i > Len(ps) THEN ps
    ELSE LET p1 == [ ps EXCEPT ![i] = DensityLoop(ps, g)[i] ]
             p2 == [ p1 EXCEPT ![i] = PressureLoop(p1)[i] ]
             p3 == [ p2 EXCEPT ![i] = ForceLoop(p2)[i] ]
         IN OnePass([ p3 EXCEPT ![i] = Integrate(p3[i], NoiseDraw(seed, i)) ],
                    g, i + 1, seed)

\* A tick made of that single loop.
UpdatePhysicsOnePass(st, seed) ==
    IF st.particles = << >> THEN st
    ELSE LET g == RebuildGrid(EmptyGrid, st.particles, 1)
         IN [ st EXCEPT !.spatial_hash = g,
                        !.particles =
                           SelectSeq(OnePass(st.particles, g, 1, seed),
                                     LAMBDA particle :
                                        ~ (particle.age >= particle.lifetime)),
                        !.ripples = UpdateRipples(@),
                        !.crossed = Crossing(st.particles, seed) ]

\* A tick whose time step is the clock's dt when that dt is 0: no particle
\* is integrated.
UpdatePhysicsZeroStep(st, seed) == st

\* A tick that begins by handling the keyboard impacts of the particles on
\* the keyboard line: it creates their ripples and splash particles itself.
UpdatePhysicsWithImpacts(st, seed) ==
    LET s0 == CheckKeyboardImpacts(st, seed)
    IN IF s0.particles = << >> THEN s0
       ELSE LET g == RebuildGrid(EmptyGrid, s0.particles, 1)
                p3 == ForceLoop(PressureLoop(DensityLoop(s0.particles, g)))
            IN [ s0 EXCEPT !.spatial_hash = g,
                           !.particles = IntegrateLoop(p3, seed),
                           !.ripples = UpdateRipples(@),
                           !.crossed = Crossing(p3, seed) ]

\* LiquidMode._update_physics()
UpdatePhysics(st, seed) ==
    IF st.particles = << >> THEN st
    ELSE LET g == RebuildGrid(EmptyGrid, st.particles, 1)
             p1 == DensityLoop(st.particles, g)
             p2 == PressureLoop(p1)
             p3 == ForceLoop(p2)
             p4 == IntegrateLoop(p3, seed)
         IN [ st EXCEPT !.spatial_hash = g,
                        !.particles = p4,
                        !.ripples = UpdateRipples(@),
                        !.crossed = Crossing(p3, seed) ]

(***************************************************************************)
(* update_time                                                             *)
(***************************************************************************)
RECURSIVE SpawnActive(_, _, _, _, _)
\* for note in active_notes: spawn when the pitch has no spawn record yet
SpawnActive(st, active, current_time, seed, k) ==
    IF k > Len(active) THEN st
    ELSE LET note == active[k]
         IN IF note.pitch \notin DOMAIN st.last_note_times
            THEN SpawnActive(
                   SpawnDropletsForNote(
                     [ st EXCEPT !.last_note_times =
                         [ q \in (DOMAIN @) \cup {note.pitch} |->
                             IF q = note.pitch THEN current_time ELSE @[q] ] ],
                     note, seed + k - 1),
                   active, current_time, seed, k + 1)
            ELSE SpawnActive(st, active, current_time, seed, k + 1)

\* An update_time that ignores a clock that moved backwards.
UpdateTimeNoRewind(st, notes, frame_time, current_time, seed) ==
    IF notes = << >> THEN st
    ELSE SpawnActive(CheckKeyboardImpacts(st, seed),
                     GetNotesAtTime(notes, current_time),
                     current_time, seed, 1)

\* LiquidMode.update_time(current_time): the simulation state it leaves
\* (self._last_frame_time = current_time is assigned by the action).
UpdateTimeSim(st, notes, frame_time, current_time, seed) ==
    LET dt == current_time - frame_time
        s0 == IF dt < 0 THEN ResetSim(st) ELSE st
    IN IF notes = << >> THEN s0
       ELSE SpawnActive(CheckKeyboardImpacts(s0, seed),
                        GetNotesAtTime(notes, current_time),
                        current_time, seed, 1)

(***************************************************************************)
(* Bounds of the model and the inputs it enumerates                        *)
(***************************************************************************)
\* Frames rendered in one run.
MaxFrames == 2

\* The clock values of the host are 0..MaxTime.
MaxTime == 1

\* Particle objects created in one run: the droplets of a note (5), the
\* splash of one impact (9) and the droplets spawned after a rewind (5).
MaxCreated == 19

\* The MIDI data the host loads: one pitch played twice, with a rest between
\* the two notes (the second note sounds from clock value 2 on).
Song == << Note(0, 0, 1, 8), Note(0, 2, 3, 8) >>

MidiChoices == { Song }

(***************************************************************************)
(* Actions.  The variable last is history: the operation that led to the   *)
(* state, the sign of dt seen by the last update_time when no operation    *)
(* other than render followed it, the sizes of the collections before the  *)
(* operation, and for a tick whether a surviving particle changed position *)
(* or velocity and which particles it carried onto or past the keyboard    *)
(* line.                                                                   *)
(***************************************************************************)
Sizes(st) ==
    [ particles |-> Len(st.particles), ripples |-> Len(st.ripples),
      cells |-> Cardinality(DOMAIN st.spatial_hash),
      records |-> Cardinality(DOMAIN st.last_note_times) ]

Last(op, dt, moved, crossed) ==
    [ op |-> op, dt |-> dt, before |-> Sizes(Current), moved |-> moved,
      crossed |-> crossed ]

\* History of a method applied on its own: before is its argument.
LastOn(op, before) ==
    [ op |-> op, dt |-> "none", before |-> before, moved |-> FALSE,
      crossed |-> {} ]

DtSign(dt) == IF dt < 0 THEN "negative" ELSE IF dt = 0 THEN "zero" ELSE "positive"

Install(st) ==
    /\ particles' = st.particles
    /\ ripples' = st.ripples
    /\ spatial_hash' = st.spatial_hash
    /\ last_note_times' = st.last_note_times
    /\ impact_events' = st.impact_events
    /\ nextId' = st.nextId

Init ==
    /\ particles = << >>
    /\ ripples = << >>
    /\ spatial_hash = EmptyGrid
    /\ midi_data = << >>
    /\ last_note_times = EmptyDict
    /\ last_frame_time = 0
    /\ impact_events = << >>
    /\ nextId = 1
    /\ frames = 0
    /\ player = NewPlayer
    /\ quantized = << >>
    /\ last = Last("init", "none", FALSE, {})

\* LiquidMode.set_midi_data(midi_data)
SetMidiData(m) ==
    /\ midi_data' = m
    /\ UNCHANGED << player, quantized >>
    /\ last' = Last("set_midi_data", "none", FALSE, {})
    /\ UNCHANGED << particles, ripples, spatial_hash, last_note_times,
                    last_frame_time, impact_events, nextId, frames >>

\* LiquidMode.update_time(current_time)
UpdateTime(current_time, seed) ==
    LET st == UpdateTimeSim(Current, midi_data, last_frame_time,
                            current_time, seed)
    IN /\ st.nextId <= MaxCreated + 1
       /\ Install(st)
       /\ last_frame_time' = current_time
       /\ UNCHANGED << player, quantized >>
       /\ last' = Last("update_time", DtSign(current_time - last_frame_time),
                       FALSE, {})
       /\ UNCHANGED << midi_data, frames >>

\* The particles i of before and j of after are the same object.
Same(before, i, after, j) == before[i].id = after[j].id

\* The particle has the same position and velocity in both lists.
Still(before, i, after, j) ==
    << before[i].x, before[i].y, before[i].vx, before[i].vy >>
        = << after[j].x, after[j].y, after[j].vx, after[j].vy >>

\* Some particle that is in the list before and after has another position
\* or velocity.
SomeMoved(before, after) ==
    \E i \in 1..Len(before) : \E j \in 1..Len(after) :
        Same(before, i, after, j) /\ ~ Still(before, i, after, j)

\* LiquidMode.render(): the frame's physics tick (drawing changes no state).
Render(seed) ==
    LET st == UpdatePhysics(Current, seed)
    IN /\ frames < MaxFrames
       /\ Install(st)
       /\ frames' = frames + 1
       /\ UNCHANGED << player, quantized >>
       /\ last' = Last("render",
                       IF last.op = "update_time" THEN last.dt ELSE "none",
                       SomeMoved(particles, st.particles), st.crossed)
       /\ UNCHANGED << midi_data, last_frame_time >>

\* LiquidMode.reset()
Reset ==
    /\ Install(ResetSim(Current))
    /\ UNCHANGED << player, quantized >>
    /\ last' = Last("reset", "none", FALSE, {})
    /\ UNCHANGED << midi_data, last_frame_time, frames >>

Next ==
    \/ \E m \in MidiChoices : SetMidiData(m)
    \/ \E t \in 0..MaxTime : \E seed \in Seeds : UpdateTime(t, seed)
    \/ \E seed \in Seeds : Render(seed)
    \/ Reset

Spec == Init /\ [][Next]_vars

(***************************************************************************)
(* Playback without rendering: the host loads the song and moves the clock *)
(* over the whole song, 0..MaxClock, so that the song's second note of the *)
(* same pitch becomes active.                                              *)
(***************************************************************************)
MaxClock == 3

SpecNotes ==
    Init /\ [][ \/ \E m \in MidiChoices : SetMidiData(m)
                \/ \E t \in 0..MaxClock : \E seed \in Seeds : UpdateTime(t, seed)
                \/ Reset ]_vars

(***************************************************************************)
(* _spawn_droplets_for_note on its own: the loaded note has any velocity   *)
(* of the MIDI range, and the method is called MaxSpawns times at most.    *)
(***************************************************************************)
\* Note.MAX_VELOCITY
MAX_VELOCITY == 127

MaxSpawns == 2

InitSpawn ==
    /\ \E velocity \in 0..MAX_VELOCITY : \E pitch \in {0, 64} :
          midi_data = << Note(pitch, 0, 1, velocity) >>
    /\ particles = << >>
    /\ ripples = << >>
    /\ spatial_hash = EmptyGrid
    /\ last_note_times = EmptyDict
    /\ last_frame_time = 0
    /\ impact_events = << >>
    /\ nextId = 1
    /\ frames = 0
    /\ player = NewPlayer
    /\ quantized = << >>
    /\ last = LastOn("init", midi_data[1])

\* LiquidMode._spawn_droplets_for_note(note, current_time)
Spawn(seed) ==
    /\ frames < MaxSpawns
    /\ Install(SpawnDropletsForNote(Current, midi_data[1], seed))
    /\ frames' = frames + 1
    /\ UNCHANGED << player, quantized >>
    /\ last' = LastOn("spawn_droplets_for_note", midi_data[1])
    /\ UNCHANGED << midi_data, last_frame_time >>

NextSpawn == \E seed \in Seeds : Spawn(seed)

SpecSpawn == InitSpawn /\ [][NextSpawn]_vars

(***************************************************************************)
(* _apply_boundary_conditions on its own, on one particle whose position   *)
(* and velocity are drawn around the walls.                                *)
(***************************************************************************)
\* Positions around a wall at w pixels: a pixel and a position unit to
\* either side of it, and the wall itself.
Around(w) == { Px(w - 1), Px(w) - 1, Px(w), Px(w) + 1, Px(w + 1) }

WallXs == Around(5) \cup Around(Width - 5) \cup { Px(-2), Px(3), Px(60), Px(Width + 2) }

WallYs == { Px(3), Px(10), KeyboardY, KeyboardY + Px(1) }

WallVxs == { -10 * VelScale, -7, 0, 33, 10 * VelScale }

InitWall ==
    /\ \E x \in WallXs : \E y \in WallYs : \E vx \in WallVxs :
          particles = << [ FluidParticle(1, x, y, 0, 1, 2, chromatic_colors[1],
                                         500, vx)
                           EXCEPT !.vy = 5 * VelScale ] >>
    /\ ripples = << >>
    /\ spatial_hash = EmptyGrid
    /\ midi_data = << >>
    /\ last_note_times = EmptyDict
    /\ last_frame_time = 0
    /\ impact_events = << >>
    /\ nextId = 2
    /\ frames = 0
    /\ player = NewPlayer
    /\ quantized = << >>
    /\ last = LastOn("init", particles[1])

\* LiquidMode._apply_boundary_conditions(particle)
ResolveBoundary ==
    /\ frames = 0
    /\ particles' = << ApplyBoundaryConditions(particles[1]) >>
    /\ frames' = 1
    /\ UNCHANGED << player, quantized >>
    /\ last' = LastOn("apply_boundary_conditions", particles[1])
    /\ UNCHANGED << ripples, spatial_hash, midi_data, last_note_times,
                    last_frame_time, impact_events, nextId >>

NextWall == ResolveBoundary

SpecWall == InitWall /\ [][NextWall]_vars

(***************************************************************************)
(* SpatialHashGrid on its own: three particles, the third at the place of  *)
(* the first, are inserted into the cleared grid and every particle's      *)
(* neighbours are looked up, as in the first two loops of _update_physics. *)
(***************************************************************************)
GridXs == { Px(-31), Px(-30), Px(-16), Px(-15), Px(-1), 0, Px(14), Px(15),
            Px(29), Px(30), Px(44) }

GridYs == { Px(-16), Px(-5), Px(20), Px(31) }

At(id, x, y) == FluidParticle(id, x, y, 0, 1, 2, chromatic_colors[1], 500, 0)

InitGrid ==
    /\ \E x1 \in { Px(-29), Px(-1), 0, Px(29), Px(31) } :
       \E y1 \in { Px(-5), Px(20) } :
       \E x2 \in GridXs : \E y2 \in GridYs :
          particles = << At(1, x1, y1), At(2, x2, y2), At(3, x1, y1) >>
    /\ ripples = << >>
    /\ spatial_hash = EmptyGrid
    /\ midi_data = << >>
    /\ last_note_times = EmptyDict
    /\ last_frame_time = 0
    /\ impact_events = << >>
    /\ nextId = 4
    /\ frames = 0
    /\ player = NewPlayer
    /\ quantized = << >>
    /\ last = LastOn("init", Sizes(Current))

\* for particle in self.particles: self.spatial_hash.insert(particle),
\* on the cleared grid
InsertAll ==
    /\ spatial_hash = EmptyGrid
    /\ spatial_hash' = RebuildGrid(spatial_hash, particles, 1)
    /\ UNCHANGED << player, quantized >>
    /\ last' = LastOn("insert", Sizes(Current))
    /\ UNCHANGED << particles, ripples, midi_data, last_note_times,
                    last_frame_time, impact_events, nextId, frames >>

\* for particle in self.particles:
\*     particle.neighbors = self.spatial_hash.get_neighbors(particle, KERNEL_RADIUS)
FindNeighbors ==
    /\ last.op = "insert"
    /\ particles' = [ i \in 1..Len(particles) |->
                        [ particles[i] EXCEPT !.neighbors =
                            GetNeighbors(spatial_hash, particles, particles[i],
                                         KERNEL_RADIUS) ] ]
    /\ UNCHANGED << player, quantized >>
    /\ last' = LastOn("get_neighbors", Sizes(Current))
    /\ UNCHANGED << ripples, spatial_hash, midi_data, last_note_times,
                    last_frame_time, impact_events, nextId, frames >>

\* SpatialHashGrid.clear()
ClearGrid ==
    /\ spatial_hash # EmptyGrid
    /\ spatial_hash' = EmptyGrid
    /\ UNCHANGED << player, quantized >>
    /\ last' = LastOn("clear", Sizes(Current))
    /\ UNCHANGED << particles, ripples, midi_data, last_note_times,
                    last_frame_time, impact_events, nextId, frames >>

NextGrid == InsertAll \/ FindNeighbors \/ ClearGrid

SpecGrid == InitGrid /\ [][NextGrid]_vars

(***************************************************************************)
(* _check_keyboard_impacts on its own: one or two particles are on or past *)
(* the keyboard line, the first with a speed of up to MaxImpactSteps steps *)
(* of 4 px/s either way, and one particle is above the line.               *)
(***************************************************************************)
MaxImpactSteps == 30

Faller(id, y, vy) ==
    [ FluidParticle(id, Px(60), y, 0, 1, 2, chromatic_colors[id], 500, 0)
      EXCEPT !.vy = vy ]

InitImpact ==
    /\ \E y \in { KeyboardY, KeyboardY + Px(3) } :
       \E s \in (-MaxImpactSteps)..MaxImpactSteps :
       \E n \in 2..3 :
          particles = SubSeq(<< Faller(1, y, 4 * VelScale * s),
                                Faller(2, Px(10), 5 * VelScale),
                                Faller(3, KeyboardY, 7 * VelScale) >>, 1, n)
    /\ ripples = << >>
    /\ spatial_hash = EmptyGrid
    /\ midi_data = << >>
    /\ last_note_times = EmptyDict
    /\ last_frame_time = 0
    /\ impact_events = << >>
    /\ nextId = 4
    /\ frames = 0
    /\ player = NewPlayer
    /\ quantized = << >>
    /\ last = LastOn("init", Sizes(Current))

\* LiquidMode._check_keyboard_impacts(current_time)
CheckImpacts(seed) ==
    /\ impact_events = << >>
    /\ Install(CheckKeyboardImpacts(Current, seed))
    /\ UNCHANGED << player, quantized >>
    /\ last' = LastOn("check_keyboard_impacts", Sizes(Current))
    /\ UNCHANGED << midi_data, last_frame_time, frames >>

NextImpact == \E seed \in Seeds : CheckImpacts(seed)

SpecImpact == InitImpact /\ [][NextImpact]_vars

(***************************************************************************)
(* The end of life of particles and ripples: the simulation some time      *)
(* after an impact.  A splash particle, in the air or on the keyboard      *)
(* line, is at most two ticks from the end of its lifetime; a droplet may  *)
(* be in its fade phase or one tick from its end; a ripple may be one or   *)
(* three ticks from its lifetime, or one tick from its maximal radius.  The host goes on with frames    *)
(* and clock updates; the pitch of the song already has its spawn record.  *)
(***************************************************************************)
InitLife ==
    /\ \E lifetime \in { 240, 305, 360 } : \E k \in 0..1 :
       \E y \in { Px(15), KeyboardY } : \E n \in 1..2 :
       \E age2 \in { 3610, 4790 } :
          LET age1 == DT * ((lifetime - 1) \div DT) - DT * k
              splash == [ Faller(1, y, -3 * VelScale) EXCEPT
                            !.mass = 300, !.lifetime = lifetime, !.age = age1,
                            !.alpha = IF 4 * age1 > 3 * lifetime
                                      THEN FadeAlpha(age1, lifetime) ELSE 255 ]
              droplet == [ Faller(2, Px(12), 5 * VelScale) EXCEPT
                            !.x = Px(90), !.age = age2,
                            !.alpha = FadeAlpha(age2, 8 * 600) ]
              ps == SubSeq(<< splash, droplet >>, 1, n)
          IN particles = DensityLoop(ps, RebuildGrid(EmptyGrid, ps, 1))
    /\ \E r \in { 0, 69, 71, 22 } :
          ripples =
            IF r = 0 THEN << >>
            ELSE IF r # 22
            THEN << [ RippleWave(Px(60), KeyboardY, 200, 120 * VelScale) EXCEPT
                        !.age = r * DT, !.radius = Px(5) + r * 120 * VelScale,
                        !.amplitude = 5 ] >>
            ELSE << [ RippleWave(Px(60), KeyboardY, 800, 520 * VelScale) EXCEPT
                        !.age = 220, !.radius = Px(5) + 22 * 520 * VelScale,
                        !.amplitude = 250 ] >>
    /\ spatial_hash = RebuildGrid(EmptyGrid, particles, 1)
    /\ midi_data = Song
    /\ last_note_times = [ q \in {0} |-> 0 ]
    /\ last_frame_time = 1
    /\ impact_events = << >>
    /\ nextId = 3
    /\ frames = 0
    /\ player = NewPlayer
    /\ quantized = << >>
    /\ last = Last("init", "none", FALSE, {})

SpecLife ==
    InitLife /\ [][ \/ \E seed \in Seeds : Render(seed)
                    \/ \E seed \in Seeds : UpdateTime(1, seed) ]_vars

\* The same with the frame timer of the host running: as long as frames are
\* left, a frame is rendered eventually.  Render is the only action that
\* counts a frame, and it is enabled whenever frames < MaxFrames.
SpecLifeFair ==
    /\ SpecLife
    /\ WF_frames(frames < MaxFrames /\ frames' = frames + 1)

(***************************************************************************)
(* The clock signal repeated: update_time is called again with the time of *)
(* the preceding call, MaxCalls times at most, and no frame is rendered in *)
(* between (the playback timer and the frame timer of the host are two     *)
(* timers).  frames counts the calls.                                      *)
(***************************************************************************)
MaxCalls == 2

\* LiquidMode.update_time(current_time) with current_time = _last_frame_time
UpdateTimeAgain(seed) ==
    /\ frames < MaxCalls
    /\ Install(UpdateTimeSim(Current, midi_data, last_frame_time,
                             last_frame_time, seed))
    /\ frames' = frames + 1
    /\ UNCHANGED << player, quantized >>
    /\ last' = Last("update_time", DtSign(0), FALSE, {})
    /\ UNCHANGED << midi_data, last_frame_time >>

SpecRepeat == InitLife /\ [][ \E seed \in Seeds : UpdateTimeAgain(seed) ]_vars

(***************************************************************************)
(* The playback controller driven by its host: load_audio, set_midi_data,  *)
(* play, pause, stop, seek, the update timer and the passing of time.      *)
(* TrackDuration is the duration of the audio file loaded, MaxNow the last *)
(* reading of the wall clock.  A method that returns early is a step that  *)
(* leaves the controller as it was.                                        *)
(***************************************************************************)
TrackDuration == 3
MaxNow == 4

\* One call of a controller method: op is the method, p the controller after
\* it; last.before is the controller before the call.
PlayerStep(op, p) ==
    /\ player' = p
    /\ last' = LastOn(op, player)
    /\ UNCHANGED << particles, ripples, spatial_hash, midi_data,
                    last_note_times, last_frame_time, impact_events, nextId,
                    frames, quantized >>

\* PlaybackController.stop()
StopOf(p) ==
    IF p.state = "stopped" THEN p
    ELSE [ p EXCEPT !.current_time = 0, !.pause_time = 0,
                    !.state = "stopped", !.timer = FALSE ]

\* PlaybackController.load_audio(audio_file, duration), the file loading
LoadAudio ==
    PlayerStep("load_audio",
               [ StopOf(player) EXCEPT !.audio_file = "track",
                                       !.duration = TrackDuration,
                                       !.current_time = 0 ])

\* PlaybackController.set_midi_data(midi_data, keyboard_offset)
SetKeyboardOffset(keyboard_offset) ==
    PlayerStep("set_midi_data",
               [ player EXCEPT !.midi_keyboard_offset = keyboard_offset ])

\* PlaybackController.play()
Play ==
    PlayerStep("play",
        IF player.audio_file = "none" \/ player.state = "playing" THEN player
        ELSE IF player.state = "paused"
             THEN [ player EXCEPT !.start_time = player.now - player.pause_time,
                                  !.state = "playing", !.timer = TRUE ]
             ELSE LET actual_start_position ==
                          Max(0, player.current_time
                                   - player.midi_keyboard_offset)
                  IN [ player EXCEPT
                         !.start_time = player.now - actual_start_position,
                         !.state = "playing", !.timer = TRUE ])

\* PlaybackController.pause()
Pause ==
    PlayerStep("pause",
        IF player.state # "playing" THEN player
        ELSE [ player EXCEPT !.pause_time = player.current_time,
                             !.state = "paused", !.timer = FALSE ])

\* PlaybackController.stop() called by the host
Stop == PlayerStep("stop", StopOf(player))

\* PlaybackController.seek(position) with position = k / duration
Seek(k) ==
    PlayerStep("seek",
        IF player.audio_file = "none" THEN player
        ELSE LET seek_time == Max(0, Min(k, player.duration))
                 actual_seek_time ==
                     Max(0, seek_time - player.midi_keyboard_offset)
             IN IF player.state = "playing"
                THEN [ player EXCEPT !.current_time = seek_time,
                                     !.pause_time = seek_time,
                                     !.start_time = player.now - actual_seek_time ]
                ELSE [ player EXCEPT !.current_time = seek_time,
                                     !.pause_time = seek_time,
                                     !.state = "stopped" ])

\* PlaybackController._update_position(), the slot of the update timer;
\* busy is the answer of pygame.mixer.music.get_busy().
UpdatePosition(busy) ==
    /\ player.timer
    /\ PlayerStep("update_position",
          IF player.state # "playing" THEN player
          ELSE LET p == [ player EXCEPT
                            !.current_time = player.now - player.start_time ]
               IN IF p.current_time >= p.duration \/ ~ busy THEN StopOf(p)
                  ELSE p)

\* A second passes on the wall clock.
Elapse ==
    /\ player.now < MaxNow
    /\ PlayerStep("elapse", [ player EXCEPT !.now = @ + 1 ])

SpecPlayback ==
    Init /\ [][ \/ LoadAudio
                \/ \E keyboard_offset \in 0..1 :
                      SetKeyboardOffset(keyboard_offset)
                \/ Play
                \/ Pause
                \/ Stop
                \/ \E k \in -1..(TrackDuration + 1) : Seek(k)
                \/ \E busy \in BOOLEAN : UpdatePosition(busy)
                \/ Elapse ]_vars

(***************************************************************************)
(* Note inputs: the host constructs a note from a pitch and a velocity     *)
(* that may lie outside the MIDI range, loads the song made of the notes   *)
(* it could construct, and plays it.  last.before is the input and         *)
(* last.raised tells whether the constructor raised ValueError.            *)
(***************************************************************************)
\* Note.MAX_PITCH
MAX_PITCH == 127

\* A constructor that accepts every input.
NoteInitUnchecked(pitch, start_time, end_time, velocity) ==
    [ raised |-> FALSE, note |-> Note(pitch, start_time, end_time, velocity) ]

\* Note.__init__(pitch, start_time, end_time, velocity): the note, or the
\* ValueError of the validation.
NoteInit(pitch, start_time, end_time, velocity) ==
    IF \/ ~ (0 <= pitch /\ pitch <= MAX_PITCH)
       \/ ~ (0 <= velocity /\ velocity <= MAX_VELOCITY)
       \/ start_time < 0
       \/ end_time <= start_time
    THEN [ raised |-> TRUE ]
    ELSE [ raised |-> FALSE,
           note |-> Note(pitch, start_time, end_time, velocity) ]

\* The host constructs a note for the time 0..1 and, when it has got one,
\* loads it as the song.
CreateNote(pitch, velocity) ==
    LET made == NoteInit(pitch, 0, 1, velocity)
    IN /\ midi_data' = IF made.raised THEN midi_data ELSE << made.note >>
       /\ UNCHANGED << player, quantized >>
       /\ last' = [ op |-> "create_note", dt |-> "none",
                    before |-> [ pitch |-> pitch, velocity |-> velocity ],
                    moved |-> FALSE, crossed |-> {}, raised |-> made.raised ]
       /\ UNCHANGED << particles, ripples, spatial_hash, last_note_times,
                       last_frame_time, impact_events, nextId, frames >>

SpecInput ==
    Init /\ [][ \/ \E pitch \in { -1, 0, 127, 200 } :
                   \E velocity \in { -1, 8, 127, 128 } :
                      CreateNote(pitch, velocity)
                \/ \E seed \in Seeds : UpdateTime(0, seed)
                \/ Reset ]_vars

(***************************************************************************)
(* Drawing: render() as the tick followed by _draw_fluid_particles, with   *)
(* the sequence of particles handed to the drawing routines recorded as    *)
(* the ghost field last.snapshot (identities, in drawing order).           *)
(***************************************************************************)
RECURSIVE SortedByY(_)
\* sorted(ps, key=lambda p: p.y): a new list; particles of equal y keep
\* their order.
SortedByY(ps) ==
    IF ps = << >> THEN << >>
    ELSE LET particle == ps[Len(ps)]
             rest == SortedByY(SubSeq(ps, 1, Len(ps) - 1))
         IN SelectSeq(rest, LAMBDA q : q.y <= particle.y)
            \o << particle >>
            \o SelectSeq(rest, LAMBDA q : q.y > particle.y)

\* A drawing step that sorts the particle list itself (self.particles.sort).
DrawSortingInPlace(st) ==
    LET sorted_particles == SortedByY(st.particles)
        drawn == SelectSeq(sorted_particles,
                           LAMBDA q : ~ (q.y < 0 \/ q.y > Px(Height)))
    IN [ state |-> [ st EXCEPT !.particles = sorted_particles ],
         snapshot |-> [ k \in 1..Len(drawn) |-> drawn[k].id ] ]

\* LiquidMode._draw_fluid_particles(): the simulation state it leaves and the
\* particles it draws, in drawing order.
DrawFluidParticles(st) ==
    LET sorted_particles == SortedByY(st.particles)
        drawn == SelectSeq(sorted_particles,
                           LAMBDA q : ~ (q.y < 0 \/ q.y > Px(Height)))
    IN [ state |-> st,
         snapshot |-> [ k \in 1..Len(drawn) |-> drawn[k].id ] ]

\* LiquidMode.render(): the physics tick, then the drawing.
RenderFrame(seed) ==
    LET st == UpdatePhysics(Current, seed)
        frame == DrawFluidParticles(st)
    IN /\ frames < MaxFrames
       /\ Install(frame.state)
       /\ frames' = frames + 1
       /\ UNCHANGED << player, quantized >>
       /\ last' = [ op |-> "render", dt |-> "none", before |-> Sizes(Current),
                    moved |-> SomeMoved(particles, st.particles),
                    crossed |-> st.crossed, snapshot |-> frame.snapshot ]
       /\ UNCHANGED << midi_data, last_frame_time >>

SpecDraw ==
    InitLife /\ [][ \/ \E seed \in Seeds : RenderFrame(seed)
                    \/ \E seed \in Seeds : UpdateTime(1, seed) ]_vars

(***************************************************************************)
(* NoteQuantizer (midi/note_quantizer.py).  Times are in units of 1/40 s;  *)
(* the thresholds are those of __init__ with the default configuration.    *)
(* Differences and comparisons of times are exact.                         *)
(***************************************************************************)
min_note_duration == 2
max_gap_to_fill == 4
min_velocity == 30
merge_threshold == 2

\* Note.overlaps(other)
Overlaps(note, other) ==
    ~ (note.end_time <= other.start_time \/ note.start_time >= other.end_time)

\* NoteQuantizer._remove_short_notes(notes)
RemoveShortNotes(notes) ==
    SelectSeq(notes,
              LAMBDA note : note.end_time - note.start_time >= min_note_duration)

\* NoteQuantizer._remove_low_velocity_notes(notes)
RemoveLowVelocityNotes(notes) ==
    SelectSeq(notes, LAMBDA note : note.velocity >= min_velocity)

RECURSIVE SortedByStart(_)
\* notes.sort(key=lambda n: n.start_time), a stable sort; also the sort of
\* MIDIData.add_note
SortedByStart(notes) ==
    IF notes = << >> THEN << >>
    ELSE LET note == notes[Len(notes)]
             rest == SortedByStart(SubSeq(notes, 1, Len(notes) - 1))
         IN SelectSeq(rest, LAMBDA n : n.start_time <= note.start_time)
            \o << note >>
            \o SelectSeq(rest, LAMBDA n : n.start_time > note.start_time)

RECURSIVE MergeFrom(_, _, _, _)
\* The loop of _merge_adjacent_notes from notes[i] on; a ValueError of
\* Note(...) ends it.
MergeFrom(notes, i, current, merged) ==
    IF i > Len(notes)
    THEN [ raised |-> FALSE, notes |-> Append(merged, current) ]
    ELSE LET next_note == notes[i]
             gap == next_note.start_time - current.end_time
         IN IF current.pitch = next_note.pitch
               /\ 0 <= gap /\ gap <= merge_threshold
            THEN LET made == NoteInit(current.pitch, current.start_time,
                                      next_note.end_time,
                                      Max(current.velocity, next_note.velocity))
                 IN IF made.raised THEN [ raised |-> TRUE, notes |-> << >> ]
                    ELSE MergeFrom(notes, i + 1, made.note, merged)
            ELSE MergeFrom(notes, i + 1, next_note, Append(merged, current))

\* NoteQuantizer._merge_adjacent_notes(notes)
MergeAdjacentNotes(notes) ==
    IF Len(notes) <= 1 THEN [ raised |-> FALSE, notes |-> notes ]
    ELSE MergeFrom(notes, 2, notes[1], << >>)

RECURSIVE FillFrom(_, _, _, _)
\* The loop of _fill_gaps from notes[i] on; positive is whether a gap has to
\* be positive to be filled.
FillFrom(notes, i, filled, positive) ==
    IF i > Len(notes) - 1
    THEN [ raised |-> FALSE, notes |-> Append(filled, notes[Len(notes)]) ]
    ELSE LET current == notes[i]
             next_note == notes[i + 1]
             gap == next_note.start_time - current.end_time
         IN IF (positive => 0 < gap) /\ gap <= max_gap_to_fill
            THEN LET made == NoteInit(current.pitch, current.start_time,
                                      next_note.start_time, current.velocity)
                 IN IF made.raised THEN [ raised |-> TRUE, notes |-> << >> ]
                    ELSE FillFrom(notes, i + 1, Append(filled, made.note),
                                  positive)
            ELSE FillFrom(notes, i + 1, Append(filled, current), positive)

\* A gap filling that extends a note to the start of the next one whenever
\* the gap is at most max_gap_to_fill, overlaps included.
FillGapsAnyGap(notes) ==
    IF Len(notes) <= 1 THEN [ raised |-> FALSE, notes |-> notes ]
    ELSE FillFrom(notes, 1, << >>, FALSE)

\* NoteQuantizer._fill_gaps(notes)
FillGaps(notes) ==
    IF Len(notes) <= 1 THEN [ raised |-> FALSE, notes |-> notes ]
    ELSE FillFrom(notes, 1, << >>, TRUE)

\* cleaned.remove(existing): the first element equal to existing is removed
RemoveFirst(cleaned, existing) ==
    LET k == CHOOSE k \in 1..Len(cleaned) :
                 /\ cleaned[k] = existing
                 /\ \A j \in 1..(k - 1) : cleaned[j] # existing
    IN SubSeq(cleaned, 1, k - 1) \o SubSeq(cleaned, k + 1, Len(cleaned))

RECURSIVE RemoveOverlapsFrom(_, _, _)
\* The loop of _remove_overlaps from notes[i] on: current is compared with
\* the first note of cleaned it overlaps.
RemoveOverlapsFrom(notes, i, cleaned) ==
    IF i > Len(notes) THEN cleaned
    ELSE LET current == notes[i]
             hits == { k \in 1..Len(cleaned) : Overlaps(current, cleaned[k]) }
         IN IF hits = {}
            THEN RemoveOverlapsFrom(notes, i + 1, Append(cleaned, current))
            ELSE LET existing ==
                         cleaned[CHOOSE k \in hits : \A j \in hits : k <= j]
                 IN IF current.velocity > existing.velocity
                    THEN RemoveOverlapsFrom(notes, i + 1,
                             Append(RemoveFirst(cleaned, existing), current))
                    ELSE RemoveOverlapsFrom(notes, i + 1, cleaned)

\* NoteQuantizer._remove_overlaps(notes)
RemoveOverlaps(notes) ==
    IF Len(notes) <= 1 THEN notes
    ELSE SortedByStart(RemoveOverlapsFrom(notes, 1, << >>))

\* NoteQuantizer.quantize, steps 1 to 5: the list handed to _remove_overlaps,
\* or the ValueError raised on the way.
Prepare(notes, remove_short_notes, fill_gaps) ==
    LET n1 == IF remove_short_notes THEN RemoveShortNotes(notes) ELSE notes
        n3 == SortedByStart(RemoveLowVelocityNotes(n1))
        n4 == MergeAdjacentNotes(n3)
    IN IF n4.raised \/ ~ fill_gaps THEN n4 ELSE FillGaps(n4.notes)

(***************************************************************************)
(* The quantizer applied to note collections: the host adds up to MaxNotes *)
(* notes of NotePool to a MIDIData and has it quantized.  last.prepared is *)
(* the list handed to _remove_overlaps.                                    *)
(***************************************************************************)
MaxNotes == 3

NotePool ==
    { Note(60, 0, 12, 70), Note(62, 1, 3, 80), Note(64, 5, 8, 60),
      Note(60, 13, 16, 40), Note(64, 20, 24, 90), Note(65, 6, 7, 100),
      Note(67, 2, 9, 25), Note(62, 0, 4, 55), Note(62, 3, 10, 75),
      Note(64, 9, 12, 85) }

\* MIDIData.add_note(note)
AddNote(note) ==
    /\ Len(midi_data) < MaxNotes
    /\ midi_data' = SortedByStart(Append(midi_data, note))
    /\ last' = LastOn("add_note", midi_data)
    /\ UNCHANGED << particles, ripples, spatial_hash, last_note_times,
                    last_frame_time, impact_events, nextId, frames, player,
                    quantized >>

\* NoteQuantizer.quantize(midi_data) of a quantizer configured with
\* remove_short_notes and fill_gaps
Quantize(remove_short_notes, fill_gaps) ==
    LET prepared == IF midi_data = << >>
                    THEN [ raised |-> FALSE, notes |-> << >> ]
                    ELSE Prepare(midi_data, remove_short_notes, fill_gaps)
    IN /\ quantized' = IF prepared.raised THEN quantized
                       ELSE SortedByStart(RemoveOverlaps(prepared.notes))
       /\ last' = [ op |-> "quantize", dt |-> "none", before |-> midi_data,
                    moved |-> FALSE, crossed |-> {},
                    raised |-> prepared.raised, prepared |-> prepared.notes ]
       /\ UNCHANGED << particles, ripples, spatial_hash, midi_data,
                       last_note_times, last_frame_time, impact_events,
                       nextId, frames, player >>

SpecQuantize ==
    Init /\ [][ \/ \E note \in NotePool : AddNote(note)
                \/ \E remove_short_notes \in BOOLEAN :
                      \E fill_gaps \in BOOLEAN :
                         Quantize(remove_short_notes, fill_gaps) ]_vars

(***************************************************************************)
(* Properties                                                              *)
(***************************************************************************)
\* C1: after a physics tick on a non-empty particle list, every particle
\* left in the particle list has density >= REST_DENSITY * 0.5.
C1_DensityFloor ==
    last.op = "render" =>
        \A i \in 1..Len(particles) : 2 * particles[i].density >= REST_DENSITY

\* A tick has run on a non-empty list and left a particle that has
\* neighbours and a particle that has none.
C1_Witness ==
    /\ last.op = "render"
    /\ last.before.particles > 0
    /\ \E i \in 1..Len(particles) : particles[i].neighbors # << >>
    /\ \E i \in 1..Len(particles) : particles[i].neighbors = << >>

\* C3: after reset() the particle list is empty, the ripple list is empty
\* and the spatial grid has zero cells.
C3_ResetEmpties ==
    last.op = "reset" =>
        /\ Len(particles) = 0
        /\ Len(ripples) = 0
        /\ Cardinality(DOMAIN spatial_hash) = 0

\* reset() has run on a state that had particles, ripples and grid cells.
C3_Witness ==
    /\ last.op = "reset"
    /\ last.before.particles > 0
    /\ last.before.ripples > 0
    /\ last.before.cells > 0
    /\ particles = << >>

\* C5: a particle that a tick carries onto or past the keyboard line
\* (y >= keyboard_y) is not reflected: the boundary handler does not move it
\* back above the line.
C5_NotReflected ==
    last.op = "render" =>
        \A i \in 1..Len(particles) :
            particles[i].id \in last.crossed => particles[i].y >= KeyboardY

\* C8: the radius of a ripple never decreases from one tick to the next
\* while the ripple stays in the ripple list.  (A ripple of the list after
\* the tick is the ripple of the list before it that was created with the
\* same centre, speed and limits and is one time step younger.)
C8_RadiusNeverDecreases ==
    [][ last'.op = "render" =>
          \A i \in 1..Len(ripples) : \A j \in 1..Len(ripples') :
              ( /\ ripples'[j].x = ripples[i].x
                /\ ripples'[j].y = ripples[i].y
                /\ ripples'[j].speed = ripples[i].speed
                /\ ripples'[j].age = ripples[i].age + DT )
              => ripples'[j].radius >= ripples[i].radius ]_vars

\* A tick has aged a ripple that is still in the list, and its radius is
\* beyond the initial one.
C8_Witness ==
    /\ last.op = "render"
    /\ \E j \in 1..Len(ripples) :
          ripples[j].age > 0 /\ ripples[j].radius > Px(5)

\* C9 as claimed: when update_time saw dt = 0 and the frame is then ticked,
\* no particle's position or velocity changes.
C9_ZeroDtFreezes ==
    (last.op = "render" /\ last.dt = "zero") => ~ last.moved

\* C9 as the code has it: update_time with dt = 0 changes no position or
\* velocity of a particle it leaves in the list, and the tick of the frame
\* that follows advances every particle it leaves in the list by the fixed
\* step of 1/60 s, whatever dt was.
C9_TickIgnoresClock ==
    [][ /\ (last'.op = "update_time" /\ last'.dt = "zero")
           => ~ SomeMoved(particles, particles')
        /\ (last.op = "update_time" /\ last.dt = "zero" /\ last'.op = "render")
           => \A i \in 1..Len(particles) : \A j \in 1..Len(particles') :
                 Same(particles, i, particles', j)
                 => ~ Still(particles, i, particles', j) ]_vars

\* update_time with dt = 0 and then a tick that moved a surviving particle.
C9_Witness ==
    last.op = "render" /\ last.dt = "zero" /\ last.moved

\* C10: when update_time receives a current_time smaller than that of the
\* previous call, no particle, ripple, grid entry or per-pitch spawn record
\* from before the call survives it; afterwards there are only droplets
\* newly spawned for notes active at the new time, with the spawn records
\* of their pitches.
C10_RewindResets ==
    [][ (last'.op = "update_time" /\ last'.dt = "negative") =>
          /\ \A j \in 1..Len(particles') :
                /\ particles'[j].id >= nextId
                /\ \E n \in 1..Len(midi_data) :
                      /\ IsActiveAt(midi_data[n], last_frame_time')
                      /\ midi_data[n].pitch = particles'[j].pitch
                /\ particles'[j].age = 0
          /\ Len(ripples') = 0
          /\ Cardinality(DOMAIN spatial_hash') = 0
          /\ impact_events' = << >>
          /\ \A q \in DOMAIN last_note_times' :
                /\ last_note_times'[q] = last_frame_time'
                /\ \E n \in 1..Len(midi_data) :
                      /\ IsActiveAt(midi_data[n], last_frame_time')
                      /\ midi_data[n].pitch = q ]_vars

\* update_time has run with a clock that moved backwards on a state that
\* had particles, ripples, grid cells and spawn records, and has spawned
\* droplets for a note active at the new time.
C10_Witness ==
    /\ last.op = "update_time"
    /\ last.dt = "negative"
    /\ last.before.particles > 0
    /\ last.before.ripples > 0
    /\ last.before.cells > 0
    /\ last.before.records > 0
    /\ particles # << >>
    /\ DOMAIN last_note_times # {}

\* C4 as claimed: spawning droplets for a note adds exactly
\* max(2, round(5 + velocity_norm * 8)) particles, velocity_norm = velocity / 127.
C4_RoundedCount ==
    [][ last'.op = "spawn_droplets_for_note" =>
          Len(particles') = Len(particles)
              + Max(2, (2 * (5 * 127 + 8 * last'.before.velocity) + 127)
                           \div (2 * 127)) ]_vars

\* C4 as the code has it: spawning droplets for a note appends exactly
\* max(2, int(5 + velocity_norm * 8)) particles (the fraction is cut off,
\* not rounded) and leaves the particles that were in the list where they
\* were.
C4_TruncatedCount ==
    [][ last'.op = "spawn_droplets_for_note" =>
          /\ Len(particles') = Len(particles)
                + Max(2, (5 * 127 + 8 * last'.before.velocity) \div 127)
          /\ SubSeq(particles', 1, Len(particles)) = particles
          /\ \A j \in (Len(particles) + 1)..Len(particles') :
                particles'[j].id >= nextId ]_vars

\* Droplets were spawned into a non-empty list for a velocity at which
\* rounding and truncation differ: velocity 8 gives 5 + 0.504, and 5 new
\* particles after the 5 of the first call.
C4_Witness ==
    /\ last.op = "spawn_droplets_for_note"
    /\ last.before.velocity = 8
    /\ frames = 2
    /\ Len(particles) = 5 + 5

\* C7: a boundary resolution of a particle with x < 5 sets x = 5 and
\* multiplies vx by -0.8; with x > width - 5 it sets x = width - 5 and
\* multiplies vx by -0.8; with 5 <= x <= width - 5 it leaves x and vx as
\* they were.  (vx is kept in 1/100 px/s: the product is exact to one unit.)
C7_SideWalls ==
    [][ last'.op = "apply_boundary_conditions" =>
          LET p == particles[1]
              q == particles'[1]
          IN /\ p.x < Px(5) =>
                  q.x = Px(5) /\ Abs(10 * q.vx + 8 * p.vx) < 10
             /\ p.x > Px(Width - 5) =>
                  q.x = Px(Width - 5) /\ Abs(10 * q.vx + 8 * p.vx) < 10
             /\ (p.x >= Px(5) /\ p.x <= Px(Width - 5)) =>
                  q.x = p.x /\ q.vx = p.vx ]_vars

\* The particle at x = 3 with vx = -10 has been resolved to x = 5, vx = 8.
C7_Witness ==
    /\ last.op = "apply_boundary_conditions"
    /\ last.before.x = Px(3)
    /\ last.before.vx = -10 * VelScale
    /\ particles[1].x = Px(5)
    /\ particles[1].vx = 8 * VelScale

\* C2: for a layout inserted into the cleared grid of cell size
\* 2 * KERNEL_RADIUS, get_neighbors(p, KERNEL_RADIUS) returns exactly the
\* other particles at a distance below KERNEL_RADIUS from p, each once and
\* never p itself, also when coordinates are negative.
C2_NeighborsExact ==
    last.op = "get_neighbors" =>
        \A i \in 1..Len(particles) :
            LET found == particles[i].neighbors
                near == { particles[j].id :
                            j \in { k \in 1..Len(particles) :
                                      /\ k # i
                                      /\ DistSq(particles[i], particles[k])
                                           < Sq(KERNEL_RADIUS * DistScale) } }
            IN /\ { found[k] : k \in 1..Len(found) } = near
               /\ Len(found) = Cardinality(near)

\* The neighbours were looked up for a particle at a negative x that has a
\* neighbour in another cell and a neighbour at its own place.
C2_Witness ==
    /\ last.op = "get_neighbors"
    /\ particles[1].x = Px(-29)
    /\ particles[2].x = Px(-31)
    /\ particles[2].y = particles[1].y
    /\ CellOf(particles[2].x) # CellOf(particles[1].x)
    /\ { particles[1].neighbors[k] : k \in 1..Len(particles[1].neighbors) }
         = { 2, 3 }

RECURSIVE C6_SplashTotal(_, _)
\* The sum of int(8 + 0.15 * v) over the impacts k.. of the list, v in
\* 1/100 px/s.
C6_SplashTotal(impacts, k) ==
    IF k > Len(impacts) THEN 0
    ELSE (80000 + 15 * impacts[k].velocity) \div 10000
         + C6_SplashTotal(impacts, k + 1)

\* C6: every impact detected at the keyboard line with velocity v = |vy|
\* appends one ripple with amplitude 2 + 0.03 v and speed 120 + 20 v, adds
\* int(8 + 0.15 v) splash particles (26 for v = 120) and removes the
\* impacting particle from the particle list.
C6_ImpactEffects ==
    [][ last'.op = "check_keyboard_impacts" =>
          LET hit == { i \in 1..Len(particles) : particles[i].y >= KeyboardY }
              kept == Len(particles) - Cardinality(hit)
              new == SubSeq(impact_events', Len(impact_events) + 1,
                            Len(impact_events'))
          IN /\ Len(new) = Cardinality(hit)
             /\ \A i \in hit :
                   /\ particles[i].id \notin Ids(particles')
                   /\ \E k \in 1..Len(new) :
                         /\ new[k].particle = particles[i].id
                         /\ new[k].velocity = Abs(particles[i].vy)
             /\ Len(ripples') = Len(ripples) + Len(new)
             /\ \A k \in 1..Len(new) :
                   LET r == ripples'[Len(ripples) + k]
                       v == new[k].velocity
                   IN /\ Abs(100 * r.amplitude - (20000 + 3 * v)) < 100
                      /\ r.speed = 120 * VelScale + 20 * v
             /\ Len(particles') = kept + C6_SplashTotal(new, 1)
             /\ \A j \in 1..kept : particles'[j].id < nextId
             /\ \A j \in (kept + 1)..Len(particles') :
                   particles'[j].id >= nextId ]_vars

\* An impact with v = 120 px/s has been handled: one ripple of amplitude
\* 5.6, 26 splash particles after the one particle that stayed.
C6_Witness ==
    /\ last.op = "check_keyboard_impacts"
    /\ last.before.particles = 2
    /\ Len(impact_events) = 1
    /\ impact_events[1].velocity = 120 * VelScale
    /\ Len(ripples) = 1
    /\ ripples[1].amplitude = 560
    /\ Len(particles) = 1 + 26

\* C11: a particle that has been removed from the particle list (by a
\* keyboard impact or at the end of its lifetime) never re-enters it: every
\* particle of the list after a step was in the list before it or has been
\* created by the step; and a particle produces at most one impact event:
\* an impact event is produced for a particle of the list, which the same
\* step removes, and no two events are of the same particle.
C11_NoReentry ==
    [][ /\ \A j \in 1..Len(particles') :
              particles'[j].id \in Ids(particles) \/ particles'[j].id >= nextId
        /\ \A k \in 1..Len(impact_events') :
              k > Len(impact_events) =>
                 /\ impact_events'[k].particle \in Ids(particles)
                 /\ impact_events'[k].particle \notin Ids(particles')
        /\ \A a \in 1..Len(impact_events') : \A b \in 1..Len(impact_events') :
              a # b => impact_events'[a].particle # impact_events'[b].particle
      ]_vars

\* A tick has removed a particle at the end of its lifetime after another
\* particle had been removed by an impact.
C11_Witness ==
    /\ last.op = "render"
    /\ Len(particles) < last.before.particles
    /\ Len(impact_events) > 0
    /\ \A k \in 1..Len(impact_events) :
          impact_events[k].particle \notin Ids(particles)

\* C12: in every state every particle of the list has an alpha between 0
\* and 255, also during the fade phase of the last quarter of its lifetime.
C12_AlphaInRange ==
    \A i \in 1..Len(particles) :
       particles[i].alpha >= 0 /\ particles[i].alpha <= 255

\* A tick has removed a particle at the end of its lifetime and has left
\* another one in its fade phase, partly transparent.
C12_Witness ==
    /\ last.op = "render"
    /\ Len(particles) < last.before.particles
    /\ \E i \in 1..Len(particles) :
          /\ 4 * particles[i].age > 3 * particles[i].lifetime
          /\ particles[i].alpha > 0
          /\ particles[i].alpha < 255

\* C13 (as stated): in every reachable state every particle has a density
\* of at least REST_DENSITY * 0.5, also between its creation and its first
\* tick.
C13_AlwaysFloored ==
    \A i \in 1..Len(particles) : 2 * particles[i].density >= REST_DENSITY

\* C13 (amended): in every reachable state every particle that a tick has
\* processed has a density of at least REST_DENSITY * 0.5; a particle
\* between its creation and its first tick has age 0 and density 0.
C13_FlooredOnceTicked ==
    \A i \in 1..Len(particles) :
       IF particles[i].age = 0
       THEN particles[i].density = 0
       ELSE 2 * particles[i].density >= REST_DENSITY

\* A particle that has just been created, with density 0, is in the list
\* together with a particle that a tick has processed.
C13_Witness ==
    /\ \E i \in 1..Len(particles) :
          particles[i].age = 0 /\ particles[i].density = 0
    /\ \E i \in 1..Len(particles) :
          particles[i].age > 0 /\ 2 * particles[i].density >= REST_DENSITY

\* The neighbours, density, pressure and viscosity force of every particle
\* of the list ps, computed from the positions and velocities in ps.
C14_Solve(ps) ==
    LET g == RebuildGrid(EmptyGrid, ps, 1)
        p1 == SubSeq(DensityLoop(ps, g), 1, Len(ps))
        p2 == SubSeq(PressureLoop(p1), 1, Len(ps))
        solved == SubSeq(ForceLoop(p2), 1, Len(ps))
    IN [ id \in Ids(ps) |->
           LET particle == ById(solved, id)
           IN [ neighbors |-> { particle.neighbors[k] :
                                  k \in 1..Len(particle.neighbors) },
                density |-> particle.density,
                pressure |-> particle.pressure,
                viscosity_force_x |-> particle.viscosity_force_x,
                viscosity_force_y |-> particle.viscosity_force_y ] ]

C15_LaterNoteSpawns ==
    [][ last'.op = "update_time" =>
           \A k \in 1..Len(midi_data) :
              LET note == midi_data[k]
              IN IsActiveAt(note, last_frame_time')
                 /\ note.start_time > last_frame_time
                 => \E j \in 1..Len(particles') :
                       /\ particles'[j].id >= nextId
                       /\ particles'[j].pitch = note.pitch
      ]_vars

\* C16 (as stated): every tick ages every ripple and removes the ripples
\* that are no longer alive, also a tick during which no particle is alive.
C16_EveryTickAgesRipples ==
    [][ last'.op = "render" => ripples' = UpdateRipples(ripples) ]_vars

\* C17: producing the draw snapshot orders the particles by ascending y and
\* never changes the simulation state: after render() the particle list, the
\* ripples, the grid, the spawn records and the impact events are those the
\* tick has left, the list in its own order, and the snapshot holds every
\* particle of the list once, each at a y not above that of the next one.
C17_DrawSortsACopy ==
    [][ last'.op = "render" =>
           /\ \E seed \in Seeds :
                 LET st == UpdatePhysics(Current, seed)
                 IN /\ particles' = st.particles
                    /\ ripples' = st.ripples
                    /\ spatial_hash' = st.spatial_hash
                    /\ last_note_times' = st.last_note_times
                    /\ impact_events' = st.impact_events
           /\ LET snapshot == last'.snapshot
              IN /\ Len(snapshot) = Len(particles')
                 /\ { snapshot[k] : k \in 1..Len(snapshot) } = Ids(particles')
                 /\ \A k \in 1..(Len(snapshot) - 1) :
                       ById(particles', snapshot[k]).y
                          <= ById(particles', snapshot[k + 1]).y
      ]_vars

\* A frame has been drawn whose particle list is not in ascending order of
\* y, so that the snapshot is in another order than the list.
C17_Witness ==
    /\ last.op = "render"
    /\ Len(last.snapshot) >= 2
    /\ \E i \in 1..Len(particles) : \E j \in 1..Len(particles) :
          i < j /\ particles[i].y > particles[j].y
    /\ last.snapshot # [ k \in 1..Len(particles) |-> particles[k].id ]

C19_ClampedNoError ==
    last.op = "create_note" =>
       /\ ~ last.raised
       /\ midi_data = << Note(Max(0, Min(MAX_PITCH, last.before.pitch)), 0, 1,
                              Max(0, Min(MAX_VELOCITY, last.before.velocity))) >>

\* C19 (amended): an out-of-range note input is rejected when the note is
\* constructed: Note.__init__ raises ValueError for a pitch or a velocity
\* outside 0..127 and the song is left as it was; an input inside the range
\* gives a note with that pitch and velocity.  Spawning does no clamping;
\* it only meets constructed notes, so every particle has a pitch in 0..127
\* and a mass 0.5 + velocity_norm * 0.5 with velocity_norm in 0..1.
C19_RejectedAtConstruction ==
    [][ /\ last'.op = "create_note" =>
              LET pitch == last'.before.pitch
                  velocity == last'.before.velocity
              IN IF pitch \in 0..MAX_PITCH /\ velocity \in 0..MAX_VELOCITY
                 THEN ~ last'.raised /\ midi_data' = << Note(pitch, 0, 1, velocity) >>
                 ELSE last'.raised /\ midi_data' = midi_data
        /\ \A j \in 1..Len(particles') :
              /\ particles'[j].pitch \in 0..MAX_PITCH
              /\ particles'[j].mass >= 500
              /\ particles'[j].mass <= 1000
      ]_vars

\* The constructor has rejected an input while the droplets of a note at the
\* upper end of the range are in the list.
C19_Witness ==
    /\ last.op = "create_note"
    /\ last.raised
    /\ last.before.pitch > MAX_PITCH
    /\ \E i \in 1..Len(particles) :
          particles[i].pitch = MAX_PITCH /\ particles[i].mass = 1000

\* C20: a tick removes exactly the particles whose age reaches their
\* lifetime at that tick, and ages every other particle of the list by one
\* time step, so that after a tick no particle has age >= lifetime; and as
\* long as ticks keep occurring every particle is eventually removed: a
\* particle whose remaining lifetime is covered by the frames still to come
\* is eventually out of the list.
C20_RemovedWhenDue ==
    /\ [][ last'.op = "render" =>
              /\ \A j \in 1..Len(particles') :
                    particles'[j].age < particles'[j].lifetime
              /\ \A i \in 1..Len(particles) :
                    IF particles[i].age + DT >= particles[i].lifetime
                    THEN particles[i].id \notin Ids(particles')
                    ELSE \E j \in 1..Len(particles') :
                            /\ particles'[j].id = particles[i].id
                            /\ particles'[j].age = particles[i].age + DT
         ]_vars
    /\ \A id \in 1..2 :
          (\E i \in 1..Len(particles) :
              /\ particles[i].id = id
              /\ particles[i].lifetime - particles[i].age
                    <= DT * (MaxFrames - frames))
          ~> (id \notin Ids(particles))

\* One tick has removed both particles of the list, the one that reached
\* its lifetime of 8 s exactly and the one that reached or passed its own.
C20_Witness ==
    /\ last.op = "render"
    /\ last.before.particles = 2
    /\ particles = << >>
    /\ frames = 1

\* C21 (as stated): the grid is cleared and rebuilt on every tick: after a
\* tick every particle referenced by a grid cell was in the particle list at
\* the start of that tick and is referenced once, by one cell; the grid
\* keeps no reference from an earlier tick, also when the list is empty.
C21_GridRebuiltEveryTick ==
    [][ last'.op = "render" =>
           \A key \in DOMAIN spatial_hash' :
              \A k \in 1..Len(spatial_hash'[key]) :
                 /\ spatial_hash'[key][k] \in Ids(particles)
                 /\ \A other \in DOMAIN spatial_hash' :
                       \A m \in 1..Len(spatial_hash'[other]) :
                          spatial_hash'[other][m] = spatial_hash'[key][k]
                             => other = key /\ m = k
      ]_vars

\* C22 (as stated): insert places a particle into the cell
\* (floor(x / cell_size), floor(y / cell_size)), also for a negative x.
C22_FloorCell ==
    last.op = "insert" =>
       \A i \in 1..Len(particles) :
          LET key == << particles[i].x \div CellSize, particles[i].y \div CellSize >>
          IN /\ key \in DOMAIN spatial_hash
             /\ \E k \in 1..Len(spatial_hash[key]) :
                   spatial_hash[key][k] = particles[i].id

\* C22 (amended): insert places a particle into the cell
\* (int(x / cell_size), int(y / cell_size)), the quotients cut off toward
\* zero: the cell index c of a coordinate v >= 0 has
\* c * cell_size <= v < (c + 1) * cell_size, and that of a coordinate v < 0
\* has (c - 1) * cell_size < v <= c * cell_size, so that every v with
\* -cell_size < v < cell_size is in cell 0.
C22_TruncatedCell ==
    last.op = "insert" =>
       \A i \in 1..Len(particles) :
          \E key \in DOMAIN spatial_hash :
             /\ \E k \in 1..Len(spatial_hash[key]) :
                   spatial_hash[key][k] = particles[i].id
             /\ \A d \in 1..2 :
                   LET v == IF d = 1 THEN particles[i].x ELSE particles[i].y
                       c == key[d]
                   IN IF v >= 0
                      THEN c * CellSize <= v /\ v < (c + 1) * CellSize
                      ELSE (c - 1) * CellSize < v /\ v <= c * CellSize

\* A particle less than 20 pixels left of the screen, where a pitch-0
\* droplet can be spawned, has been inserted into a cell of column 0.
C22_Witness ==
    /\ last.op = "insert"
    /\ \E i \in 1..Len(particles) :
          /\ particles[i].x < 0
          /\ particles[i].x >= Px(-20)
          /\ \E key \in DOMAIN spatial_hash :
                /\ key[1] = 0
                /\ \E k \in 1..Len(spatial_hash[key]) :
                      spatial_hash[key][k] = particles[i].id

\* C23 (as stated): after a tick every particle's surface-tension factor is
\* min(1, neighbor_count / 6) for its neighbour count of that tick, also
\* for the count 0 (the factor is held in sixths).
C23_FactorIsMin ==
    last.op = "render" =>
       \A i \in 1..Len(particles) :
          /\ particles[i].num_neighbors = Len(particles[i].neighbors)
          /\ particles[i].surface_tension_factor
                = Min(6, particles[i].num_neighbors)

\* C23 (amended): after a tick every particle's surface-tension factor is
\* min(1, neighbor_count / 6) when it has at least one neighbour in that
\* tick, and 0.5 when it has none.
C23_FactorHalfWhenAlone ==
    last.op = "render" =>
       \A i \in 1..Len(particles) :
          /\ particles[i].num_neighbors = Len(particles[i].neighbors)
          /\ particles[i].surface_tension_factor
                = IF particles[i].num_neighbors = 0 THEN 3
                  ELSE IF particles[i].num_neighbors >= 6 THEN 6
                  ELSE particles[i].num_neighbors

\* A tick has left a particle without neighbours, with the factor 0.5, and
\* one with some but fewer than six neighbours, with the factor count / 6.
C23_Witness ==
    /\ last.op = "render"
    /\ \E i \in 1..Len(particles) :
          particles[i].num_neighbors = 0 /\ particles[i].surface_tension_factor = 3
    /\ \E i \in 1..Len(particles) :
          /\ particles[i].num_neighbors \in 1..5
          /\ particles[i].surface_tension_factor = particles[i].num_neighbors

\* What a run shows of the motion of its particles: which particles are in
\* the list, where, how fast and how old.
C24_Motion(ps) ==
    [ i \in 1..Len(ps) |->
        [ id |-> ps[i].id, x |-> ps[i].x, y |-> ps[i].y,
          vx |-> ps[i].vx, vy |-> ps[i].vy, age |-> ps[i].age ] ]

\* The particles a tick leaves when the particles start it with the
\* surface-tension factor f and the neighbour count n, and when the tick
\* takes f and n for what _calculate_surface_tension computes.
C24_TickWith(ps, f, n, seed) ==
    LET count == Len(ps)
        p0 == [ i \in 1..count |->
                  [ ps[i] EXCEPT !.surface_tension_factor = f,
                                 !.num_neighbors = n ] ]
        p1 == SubSeq(DensityLoop(p0, RebuildGrid(EmptyGrid, p0, 1)), 1, count)
        p2 == SubSeq(PressureLoop(p1), 1, count)
        p3 == SubSeq(ForceLoop(p2), 1, count)
        p4 == [ i \in 1..count |->
                  [ p3[i] EXCEPT !.surface_tension_factor = f,
                                 !.num_neighbors = n ] ]
    IN IntegrateLoop(p4, seed)

\* C24: the surface-tension factor is cosmetic: a run that differs from the
\* run of the program only in the particles' surface_tension_factor and
\* num_neighbors values has, after the tick, the same particles in the list
\* with the same positions, velocities and ages.
C24_TensionIsCosmetic ==
    [][ last'.op = "render" /\ particles # << >> =>
           \E seed \in Seeds :
              /\ particles' = UpdatePhysics(Current, seed).particles
              /\ \A f \in { 0, 6 } :
                    C24_Motion(C24_TickWith(particles, f, 6 - f, seed))
                       = C24_Motion(particles')
      ]_vars

\* A tick has moved particles that it has given different surface-tension
\* factors: one without neighbours and one with six or more.
C24_Witness ==
    /\ last.op = "render"
    /\ last.moved
    /\ \E i \in 1..Len(particles) : particles[i].surface_tension_factor = 3
    /\ \E i \in 1..Len(particles) : particles[i].surface_tension_factor = 6

\* The particles a tick leaves when its integration loop finds the
\* acceleration (ax, ay) in every particle instead of what
\* _calculate_pressure_force wrote.
C25_TickWith(ps, ax, ay, seed) ==
    LET count == Len(ps)
        p1 == SubSeq(DensityLoop(ps, RebuildGrid(EmptyGrid, ps, 1)), 1, count)
        p2 == SubSeq(PressureLoop(p1), 1, count)
        p3 == SubSeq(ForceLoop(p2), 1, count)
        p4 == [ i \in 1..count |-> [ p3[i] EXCEPT !.ax = ax, !.ay = ay ] ]
    IN IntegrateLoop(p4, seed)

\* C25: the acceleration that _calculate_pressure_force adds to ax, ay is
\* discarded: the integration step resets ax and ay before it uses them, so
\* the particles, positions, velocities and ages after a tick are the same
\* whatever values the force loop left in ax and ay.
C25_PressureForceDiscarded ==
    [][ last'.op = "render" /\ particles # << >> =>
           \E seed \in Seeds :
              /\ particles' = UpdatePhysics(Current, seed).particles
              /\ \A a \in { 0, 500 * VelScale } :
                    C24_Motion(C25_TickWith(particles, a, -a, seed))
                       = C24_Motion(particles')
      ]_vars

\* A tick has moved a particle for which _calculate_pressure_force computes
\* an acceleration other than zero from its neighbours.
C25_Witness ==
    /\ last.op = "render"
    /\ last.moved
    /\ \E i \in 1..Len(particles) :
          LET forced == CalculatePressureForce(
                           [ particles[i] EXCEPT !.ax = 0, !.ay = 0 ], particles)
          IN forced.ax # 0 \/ forced.ay # 0

C27_TickCreatesNothing ==
    [][ /\ last'.op = "render"
           => /\ Ids(particles') \subseteq Ids(particles)
              /\ Len(particles') <= Len(particles)
              /\ Len(ripples') <= Len(ripples)
              /\ nextId' = nextId
        /\ ( \/ Len(particles') > Len(particles)
             \/ Len(ripples') > Len(ripples)
             \/ ~ (Ids(particles') \subseteq Ids(particles)) )
           => last'.op = "update_time" ]_vars

\* A tick has run on a list with particles and ripples, after update_time
\* had added a ripple and splash particles, and it has removed a particle.
C27_Witness ==
    /\ last.op = "render"
    /\ last.before.particles > 1
    /\ last.before.ripples > 0
    /\ impact_events # << >>
    /\ Len(particles) < last.before.particles
    /\ Len(particles) > 0
    /\ Len(ripples) <= last.before.ripples

\* C28 (as stated): after PlaybackController.stop() returns, from any
\* state with audio loaded, the state is STOPPED and the playback position
\* is back at the beginning: current_time = 0 and pause_time = 0.
C28_StopResetsPosition ==
    [][ last'.op = "stop" /\ player.audio_file # "none"
        => /\ player'.state = "stopped"
           /\ player'.current_time = 0
           /\ player'.pause_time = 0 ]_vars

\* C29 (as stated): the notes returned by NoteQuantizer.quantize contain no
\* two notes that overlap in time, and of an overlapping pair of the notes
\* handed to the overlap removal the one kept is the higher-velocity note:
\* no kept note overlaps a note of higher velocity that was handed in.
C29_NoOverlapStrongerKept ==
    last.op = "quantize" /\ ~ last.raised
    => /\ \A i, j \in 1..Len(quantized) :
             i # j => ~ Overlaps(quantized[i], quantized[j])
       /\ \A i \in 1..Len(quantized) : \A j \in 1..Len(last.prepared) :
             Overlaps(quantized[i], last.prepared[j])
             => last.prepared[j].velocity <= quantized[i].velocity

\* C30: quantize never fails on a collection of valid notes and returns only
\* valid notes: start_time >= 0, end_time > start_time, and velocity and
\* pitch within 0..127, merged and gap-filled notes included.
C30_QuantizedNotesValid ==
    last.op = "quantize"
    => /\ ~ last.raised
       /\ \A i \in 1..Len(quantized) :
             /\ quantized[i].start_time >= 0
             /\ quantized[i].end_time > quantized[i].start_time
             /\ 0 <= quantized[i].velocity /\ quantized[i].velocity <= 127
             /\ 0 <= quantized[i].pitch /\ quantized[i].pitch <= 127

\* Two same-pitch notes have been merged and the merged note extended to the
\* start of the next note: both results are in the output.
C30_Witness ==
    /\ last.op = "quantize"
    /\ ~ last.raised
    /\ last.before = << Note(60, 0, 12, 70), Note(60, 13, 16, 40),
                        Note(64, 20, 24, 90) >>
    /\ quantized = << Note(60, 0, 20, 70), Note(64, 20, 24, 90) >>

=============================================================================
